---------------------------- MODULE Spec2Model ----------------------------
(***************************************************************************)
(* Arrival-time calculator (QGIS plugin): road graph weighting, the        *)
(* all-stations response analysis, the nearest-station and route modes.    *)
(*                                                                         *)
(* Numbers.  Python floats are modelled as exact rationals <<n, d>> with   *)
(* d > 0 and gcd(n, d) = 1; Python's None is the empty tuple <<>>.         *)
(* Lengths are metres, speeds metres per minute, times minutes.            *)
(***************************************************************************)
EXTENDS Integers, Sequences, FiniteSets, TLC

VARIABLES
    pc,          \* position of the running operation
    G,           \* the road graph: [nodes, edges]
    G0,          \* the graph as it was handed to the operation
    speeds,      \* the speed profile argument / ROAD_SPEEDS_KMH parameter
    impl,        \* which set_graph_travel_times ran: "graph_utils" | "SpeedManager"
    raised,      \* exception that ended the operation, "none" if none
    speeds_kmh,  \* processAlgorithm: the profile after the parameter check
    fire_stations,        \* the station layer's features, in layer order
    objects,              \* the object layer's features, in layer order
    station_nodes,        \* dict station name -> graph node (insertion ordered)
    objects_data,         \* list of the objects that resolved to a node
    objects_nodes_set,    \* set of the nodes of those objects
    arrival_times_matrix, \* dict station name -> (node -> minutes)
    idx,         \* station loop: number of stations already taken
    obj_i,       \* object loop (i in the code): number of objects already taken
    canceled,    \* feedback.isCanceled()
    sink,        \* the features added to the output sink, in order
    route_type,     \* routes mode: ROUTE_TYPE (0 nearest, 1 all, 2 threshold)
    time_threshold, \* routes mode: TIME_THRESHOLD, minutes
    query_lat,   \* find_nearest_node: the argument lat
    nearest,     \* find_nearest_node: the returned node (0: None)
    existed_units_dict, \* arrival-time matrix: dict node -> unit name
    target_layer_gdf,   \* arrival-time matrix: [rows, columns] of the table
    unit_i,      \* arrival-time matrix: i of the unit loop
    delay_time,  \* arrival-time matrix: DELAY_TIME, minutes
    cache_dir,   \* graph cache: whether the cache directory can be made
    cache_files, \* graph cache: cache key -> the file graph_<key>.pkl
    cache_key,   \* graph cache: key of the last save_graph_to_cache
    saved_graph, \* graph cache: graph of the last save_graph_to_cache
    saved_ok,    \* graph cache: what the last save_graph_to_cache returned
    cached_graph, \* graph cache: key and result of the last load
    request,     \* build_graph_for_layers: arguments of the last call
    requests,    \* build_graph_for_layers: number of calls
    downloads,   \* build_graph_for_layers: calls of ox.graph_from_polygon
    route_arg,   \* sum_route_time_and_length: the argument route_nodes
    route_sum,   \* sum_route_time_and_length: (total_time, total_len)
    race_file,   \* concurrent runs: the cache file of their common key
    race_writers, \* concurrent runs: per writer its graph, stream, position
    race_read,   \* concurrent runs: result of the last load by a reader
    units_gdf,   \* first arrival unit: the unit names of the units layer
    arrival_gdf, \* first arrival unit: [columns, rows] of the matrix layer
    units_names, \* first arrival unit: the unique unit names
    first_units, \* first arrival unit: the list first_units
    first_times, \* first arrival unit: the list first_times
    row_idx,     \* first arrival unit: idx of the row loop
    reported,    \* feedback.reportError calls, in order
    progress     \* the progress_pct values pushed by the station loop, in order

speedVars == <<pc, G, G0, speeds, impl, raised>>
runVars == <<speeds_kmh, fire_stations, objects, station_nodes, objects_data,
             objects_nodes_set, arrival_times_matrix, idx, obj_i, canceled, sink,
             route_type, time_threshold>>
atmVars == <<existed_units_dict, target_layer_gdf, unit_i, delay_time>>
cacheVars == <<cache_dir, cache_files, cache_key, saved_graph, saved_ok, cached_graph,
               request, requests, downloads>>
sumVars == <<route_arg, route_sum>>
raceVars == <<race_file, race_writers, race_read>>
fauVars == <<units_gdf, arrival_gdf, units_names, first_units, first_times, row_idx>>
extraVars == <<sumVars, raceVars, fauVars>>
otherVars == <<query_lat, nearest, atmVars, cacheVars, extraVars>>
feedbackVars == <<reported, progress>>
vars == <<speedVars, runVars, otherVars, feedbackVars>>

\* the variables of the operations that are not running
AtmIdle ==
    /\ existed_units_dict = [keys |-> <<>>, val |-> <<>>]
    /\ target_layer_gdf = [rows |-> <<>>, columns |-> <<>>]
    /\ unit_i = 0
    /\ delay_time = <<>>

CacheIdle ==
    /\ cache_dir = "ok"
    /\ cache_files = <<>>
    /\ cache_key = <<>>
    /\ saved_graph = <<>>
    /\ saved_ok = FALSE
    /\ cached_graph = <<>>
    /\ request = <<>>
    /\ requests = 0
    /\ downloads = 0

SumIdle ==
    /\ route_arg = <<>>
    /\ route_sum = <<>>

RaceIdle ==
    /\ race_file = <<>>
    /\ race_writers = <<>>
    /\ race_read = <<>>

FauIdle ==
    /\ units_gdf = <<>>
    /\ arrival_gdf = <<>>
    /\ units_names = <<>>
    /\ first_units = <<>>
    /\ first_times = <<>>
    /\ row_idx = 0

ExtraIdle == SumIdle /\ RaceIdle /\ FauIdle

OtherIdle ==
    /\ query_lat = <<>>
    /\ nearest = 0
    /\ AtmIdle
    /\ CacheIdle
    /\ ExtraIdle

-----------------------------------------------------------------------------
(* Rational arithmetic *)

None == <<>>

Abs(x) == IF x < 0 THEN -x ELSE x

RECURSIVE GCD(_, _)
GCD(a, b) == IF b = 0 THEN a ELSE GCD(b, a % b)

LCM(a, b) == (a \div GCD(a, b)) * b

\* n/d in lowest terms with a positive denominator (d # 0)
Rat(n, d) ==
    LET s == IF d < 0 THEN -1 ELSE 1
        g == GCD(Abs(n), Abs(d))
    IN  <<(s * n) \div g, (s * d) \div g>>

Int2Rat(n) == <<n, 1>>
Zero == <<0, 1>>

\* the first n decimals of r/d (0 <= r < d), by long division
RECURSIVE Decimals(_, _, _)
Decimals(r, d, n) ==
    IF n = 0 THEN 0
    ELSE LET q == (10 * r) \div d
             rest == Decimals((10 * r) % d, d, n - 1)
             RECURSIVE Pow10(_)
             Pow10(k) == IF k = 0 THEN 1 ELSE 10 * Pow10(k - 1)
         IN  q * Pow10(n - 1) + rest

\* a float keeps a bounded number of digits: a cut to 6 decimals
Float6(a) ==
    LET s == IF a[1] < 0 THEN -1 ELSE 1
        n == Abs(a[1])
    IN  Rat(s * ((n \div a[2]) * 1000000 + Decimals(n % a[2], a[2], 6)), 1000000)

\* a and b cannot be brought to a common denominator within the integers
\* at hand
Wide(a, b) ==
    LET g == GCD(a[2], b[2])
    IN  \/ a[2] \div g > 2000000000 \div b[2]
        \/ Abs(a[1]) > 1000000000 \div (b[2] \div g)
        \/ Abs(b[1]) > 1000000000 \div (a[2] \div g)

\* exact where the integers allow it, on numbers cut to 6 decimals otherwise
RatAdd(a, b) ==
    LET p == IF Wide(a, b) THEN <<Float6(a), Float6(b)>> ELSE <<a, b>>
        l == LCM(p[1][2], p[2][2])
    IN  Rat(p[1][1] * (l \div p[1][2]) + p[2][1] * (l \div p[2][2]), l)

\* a < b, exact: by the integer parts, then by the fractions, whose order is
\* the reverse of the order of their reciprocals
RECURSIVE RatLess(_, _)
RatLess(a, b) ==
    LET qa == a[1] \div a[2]
        qb == b[1] \div b[2]
        ra == a[1] % a[2]
        rb == b[1] % b[2]
    IN  IF qa # qb THEN qa < qb
        ELSE IF rb = 0 THEN FALSE
        ELSE IF ra = 0 THEN TRUE
        ELSE RatLess(<<b[2], rb>>, <<a[2], ra>>)

RatLeq(a, b) == a = b \/ RatLess(a, b)

\* a / b for b # 0
RatDiv(a, b) == Rat(a[1] * b[2], a[2] * b[1])

\* a / k for an integer k > 0
RatDivInt(a, k) == Rat(a[1], a[2] * k)

IsPositive(a) == a # None /\ a[1] > 0

\* Python truthiness of a number-or-None: None and 0 are false
Truthy(a) == a # None /\ a[1] # 0

\* round(n/d) to the nearest integer, ties to even (Python's round), d > 0
RoundInt(n, d) ==
    LET q == (2 * n + d) \div (2 * d)
        tie == (2 * n + d) % (2 * d) = 0
    IN  IF tie /\ q % 2 = 1 THEN q - 1 ELSE q

\* round(a, digits) for digits in {1, 2}
RatRound(a, scale) == Rat(RoundInt(a[1] * scale, a[2]), scale)

-----------------------------------------------------------------------------
(* Speeds: graph_utils.kmh_to_mm / set_graph_travel_times and              *)
(* SpeedManager.kmh_to_mm / set_graph_travel_times                         *)

\* km/h -> m/min, rounded to 2 decimals
kmh_to_mm(kmh) == RatRound(Rat(kmh[1] * 1000, kmh[2] * 60), 100)

DEFAULT_SPEEDS_KMH == <<49, 37, 26, 16, 5>>

\* tier of an OSM highway tag in the dictionary sp; 0 when the tag is no key
Tier(tag) ==
    CASE tag \in {"trunk", "trunk_link", "motorway", "motorway_link"} -> 1
      [] tag \in {"primary", "primary_link", "secondary", "secondary_link",
                  "unclassified"} -> 2
      [] tag \in {"tertiary", "tertiary_link", "residential",
                  "living_street"} -> 3
      [] tag \in {"road", "service", "track"} -> 4
      [] tag \in {"footway", "path", "pedestrian", "steps", "cycleway",
                  "bridleway", "corridor"} -> 5
      [] OTHER -> 0

\* sp.get(tag, s5) for the converted tier speeds s
sp_get(s, tag) == IF Tier(tag) = 0 THEN s[5] ELSE s[Tier(tag)]

RECURSIVE RatSum(_)
RatSum(seq) ==
    IF seq = <<>> THEN Zero ELSE RatAdd(Head(seq), RatSum(Tail(seq)))

\* a list of tags taking the speed of its first tag only
EdgeSpeed_first_tag(s, hw) ==
    IF hw.tags = <<>> THEN sp_get(s, "other") ELSE sp_get(s, hw.tags[1])

\* the highway attribute: a missing attribute reads as "other"; a list of
\* tags takes the mean of the tag speeds
EdgeSpeed(s, hw) ==
    IF hw.islist
    THEN RatDivInt(RatSum([i \in 1..Len(hw.tags) |-> sp_get(s, hw.tags[i])]),
                   Len(hw.tags))
    ELSE IF hw.tags = <<>> THEN sp_get(s, "other")
         ELSE sp_get(s, hw.tags[1])

\* [morph_function(kmh) for kmh in speeds]
Morph(vals) == [i \in 1..Len(vals) |-> kmh_to_mm(Int2Rat(vals[i]))]

\* the argument check of graph_utils.set_graph_travel_times
ProfileRejected(sp) == ~sp.islist \/ Len(sp.vals) # 5

\* (length / speed) if (speed and length) else None
TravelTime(speed, length) ==
    IF Truthy(speed) /\ Truthy(length) THEN RatDiv(length, speed) ELSE None

WeightEdge(s, e) ==
    LET speed == EdgeSpeed(s, e.highway)
    IN  [e EXCEPT !.maxspeed = speed,
                  !.travel_time = TravelTime(speed, e.length)]

\* a variant whose loop ends after the first edge
WeightedGraph_first(graph, sp) ==
    [graph EXCEPT !.edges =
        [n \in 1..Len(graph.edges) |->
            IF n = 1 THEN WeightEdge(Morph(sp.vals), graph.edges[n])
            ELSE graph.edges[n]]]

\* the graph after the loop of lines 139-150 with the profile sp
WeightedGraph(graph, sp) ==
    [graph EXCEPT !.edges =
        [n \in 1..Len(graph.edges) |->
            WeightEdge(Morph(sp.vals), graph.edges[n])]]

\* graph_utils.set_graph_travel_times(G, speeds, kmh_to_mm)
set_graph_travel_times ==
    /\ pc = "call"
    /\ impl' = "graph_utils"
    /\ IF ProfileRejected(speeds)
       THEN /\ raised' = "ValueError"
            /\ G' = G
       ELSE /\ raised' = "none"
            /\ G' = WeightedGraph(G, speeds)
    /\ pc' = "done"
    /\ UNCHANGED <<G0, speeds, runVars, otherVars, feedbackVars>>

\* the exception the loop of SpeedManager.set_graph_travel_times raises on
\* an edge, "none" if length / speed evaluates
SMEdgeError(s, e) ==
    IF e.length = None THEN "TypeError"
    ELSE IF EdgeSpeed(s, e.highway)[1] = 0 THEN "ZeroDivisionError"
    ELSE "none"

SMWeightEdge(s, e) ==
    LET speed == EdgeSpeed(s, e.highway)
    IN  [e EXCEPT !.maxspeed = speed,
                  !.travel_time = RatDiv(e.length, speed)]

\* SpeedManager.set_graph_travel_times(G, speeds, kmh_to_mm): the attributes
\* are collected first and written by nx.set_edge_attributes after the loop,
\* so an exception in the loop leaves the graph as it was
SpeedManager_set_graph_travel_times ==
    /\ pc = "call"
    /\ impl' = "SpeedManager"
    /\ IF ProfileRejected(speeds)
       THEN /\ raised' = "ValueError"
            /\ G' = G
       ELSE LET s == Morph(speeds.vals)
                bad == {i \in 1..Len(G.edges) : SMEdgeError(s, G.edges[i]) # "none"}
                first == CHOOSE i \in bad : \A j \in bad : i <= j
            IN  IF bad # {}
                THEN /\ raised' = SMEdgeError(s, G.edges[first])
                     /\ G' = G
                ELSE /\ raised' = "none"
                     /\ G' = [G EXCEPT !.edges =
                                [i \in 1..Len(G.edges) |->
                                    SMWeightEdge(s, G.edges[i])]]
    /\ pc' = "done"
    /\ UNCHANGED <<G0, speeds, runVars, otherVars, feedbackVars>>

-----------------------------------------------------------------------------
(* Python dicts keep insertion order: keys is that order, val the mapping *)

EmptyDict == [keys |-> <<>>, val |-> <<>>]

DictSet(d, k, v) ==
    IF k \in DOMAIN d.val
    THEN [d EXCEPT !.val[k] = v]
    ELSE [keys |-> Append(d.keys, k), val |-> d.val @@ (k :> v)]

-----------------------------------------------------------------------------
(* Inputs of the speed-weighting specification *)

MaxEdges == 2

Highways ==
    { [islist |-> FALSE, tags |-> <<>>],
      [islist |-> FALSE, tags |-> <<"motorway">>],
      [islist |-> FALSE, tags |-> <<"residential">>],
      [islist |-> FALSE, tags |-> <<"proposed">>],
      [islist |-> TRUE,  tags |-> <<"residential", "service">>] }

Lengths == { None, Int2Rat(0), Int2Rat(1000) }

\* a node on the meridian x = 0 at latitude lat
NewNode(id, lat) == [id |-> id, x |-> Int2Rat(0), y |-> Int2Rat(lat)]

NewEdge(u, v, k, hw, len) ==
    [u |-> u, v |-> v, key |-> k, highway |-> hw, length |-> len,
     maxspeed |-> None, travel_time |-> None]

\* graphs with 1..MaxEdges parallel edges 1 -> 2
SpeedGraphs ==
    UNION { { [nodes |-> <<NewNode(1, 10), NewNode(2, 20)>>,
               edges |-> [i \in 1..n |-> NewEdge(1, 2, i - 1, hw[i], len[i])]] :
                 hw \in [1..n -> Highways], len \in [1..n -> Lengths] } :
            n \in 1..MaxEdges }

BaseProfile == <<60, 30, 12, 6, 3>>

ProfileVals ==
    { BaseProfile, DEFAULT_SPEEDS_KMH, SubSeq(BaseProfile, 1, 4),
      BaseProfile \o <<3>> }
    \cup { [BaseProfile EXCEPT ![i] = x] : i \in {1, 3, 5}, x \in {0, -12} }

Profiles ==
    { [islist |-> TRUE, vals |-> v] : v \in ProfileVals }
    \cup { [islist |-> FALSE, vals |-> BaseProfile] }

\* exactly 5 positive (finite) entries
ValidProfile(sp) ==
    /\ sp.islist
    /\ Len(sp.vals) = 5
    /\ \A i \in 1..5 : sp.vals[i] > 0

InitSpeeds ==
    /\ pc = "call"
    /\ G \in SpeedGraphs
    /\ G0 = G
    /\ speeds \in Profiles
    /\ impl = "none"
    /\ raised = "none"
    /\ speeds_kmh = <<>>
    /\ fire_stations = <<>>
    /\ objects = <<>>
    /\ station_nodes = EmptyDict
    /\ objects_data = <<>>
    /\ objects_nodes_set = {}
    /\ arrival_times_matrix = <<>>
    /\ idx = 0
    /\ obj_i = 0
    /\ canceled = FALSE
    /\ sink = <<>>
    /\ reported = <<>>
    /\ progress = <<>>
    /\ route_type = 0
    /\ time_threshold = Int2Rat(30)
    /\ OtherIdle

NextSpeeds ==
    \/ set_graph_travel_times
    \/ SpeedManager_set_graph_travel_times

SpecSpeeds == InitSpeeds /\ [][NextSpeeds]_vars

-----------------------------------------------------------------------------
(* graph_utils.find_nearest_node.  All points of the model lie on one       *)
(* meridian (x = 0), where the haversine distance R * c is R * |lat2 - lat1| *)
(* and is ordered like |lat2 - lat1|.                                        *)

haversine(lat, node_lat) == Abs(node_lat[1] - lat[1])

\* the scan keeping the last of the nodes at the least distance (<=)
RECURSIVE nearest_scan_last(_, _, _, _, _)
nearest_scan_last(nodes, k, lat, min_dist, nearest_node) ==
    IF k > Len(nodes) THEN nearest_node
    ELSE LET nd == nodes[k]
         IN  IF nd.x = None \/ nd.y = None
             THEN nearest_scan_last(nodes, k + 1, lat, min_dist, nearest_node)
             ELSE LET dist == haversine(lat, nd.y)
                  IN  IF min_dist = -1 \/ dist <= min_dist
                      THEN nearest_scan_last(nodes, k + 1, lat, dist, nd.id)
                      ELSE nearest_scan_last(nodes, k + 1, lat, min_dist,
                                             nearest_node)

\* the scan of lines 45-68 over nodes[k..], holding (min_dist, nearest_node);
\* min_dist = -1 stands for float('inf')
RECURSIVE nearest_scan(_, _, _, _, _)
nearest_scan(nodes, k, lat, min_dist, nearest_node) ==
    IF k > Len(nodes) THEN nearest_node
    ELSE LET nd == nodes[k]
         IN  IF nd.x = None \/ nd.y = None
             THEN nearest_scan(nodes, k + 1, lat, min_dist, nearest_node)
             ELSE LET dist == haversine(lat, nd.y)
                  IN  IF min_dist = -1 \/ dist < min_dist
                      THEN nearest_scan(nodes, k + 1, lat, dist, nd.id)
                      ELSE nearest_scan(nodes, k + 1, lat, min_dist, nearest_node)

\* the first node that has coordinates, whatever its distance
find_first_node(graph, lat) ==
    LET V == {k \in 1..Len(graph.nodes) :
                graph.nodes[k].x # None /\ graph.nodes[k].y # None}
    IN  IF V = {} THEN 0
        ELSE graph.nodes[CHOOSE k \in V : \A j \in V : k <= j].id

\* 0 stands for the result None
find_nearest_node(graph, lat) ==
    IF Len(graph.nodes) = 0 THEN 0
    ELSE nearest_scan(graph.nodes, 1, lat, -1, 0)

-----------------------------------------------------------------------------
(* networkx: weighted shortest paths on a MultiDiGraph with                 *)
(* weight = 'travel_time'                                                    *)

NodeIds(graph) == {graph.nodes[k].id : k \in 1..Len(graph.nodes)}

\* the parallel edges u -> v (graph[u][v])
Bundle(graph, u, v) ==
    {k \in 1..Len(graph.edges) : graph.edges[k].u = u /\ graph.edges[k].v = v}

RECURSIVE RatMinOf(_, _)
\* min over a non-empty set S of edge indices of travel_time
RatMinOf(graph, S) ==
    LET k == CHOOSE x \in S : TRUE
        t == graph.edges[k].travel_time
    IN  IF S = {k} THEN t
        ELSE LET r == RatMinOf(graph, S \ {k})
             IN  IF RatLess(r, t) THEN r ELSE t

\* networkx _weight_function on a multigraph:
\*   min(attr.get(weight, 1) for attr in d.values())
\* comparing None with anything raises TypeError, so a bundle of two or more
\* edges with a None among them raises; a single edge yields its value
WeightRaises(graph, u, v) ==
    /\ Cardinality(Bundle(graph, u, v)) >= 2
    /\ \E k \in Bundle(graph, u, v) : graph.edges[k].travel_time = None

\* the cost of the hop u -> v, None when there is no edge or the weight
\* function returns None (the edge is hidden); defined when it does not raise
Weight(graph, u, v) ==
    LET B == Bundle(graph, u, v)
    IN  IF B = {} THEN None
        ELSE IF Cardinality(B) = 1
             THEN graph.edges[CHOOSE k \in B : TRUE].travel_time
             ELSE RatMinOf(graph, B)

\* the function f with every value computed
Evaluated(f) == f @@ <<>>

\* one round of relaxation of the distance map D (None = not reached)
Relax(graph, D) ==
  Evaluated(
    [v \in NodeIds(graph) |->
        LET cands == {D[v]} \cup
                     { RatAdd(D[u], Weight(graph, u, v)) :
                         u \in {w \in NodeIds(graph) :
                                  /\ D[w] # None
                                  /\ ~WeightRaises(graph, w, v)
                                  /\ Weight(graph, w, v) # None} }
            real == cands \ {None}
        IN  IF real = {} THEN None
            ELSE CHOOSE m \in real : \A o \in real : RatLeq(m, o)])

RECURSIVE RelaxN(_, _, _)
RelaxN(graph, D, n) == IF n = 0 THEN D ELSE RelaxN(graph, Relax(graph, D), n - 1)

\* the final distances of Dijkstra from source (weights are non-negative)
Distances(graph, source) ==
    RelaxN(graph,
           [v \in NodeIds(graph) |-> IF v = source THEN Zero ELSE None],
           Cardinality(NodeIds(graph)))

\* Dijkstra evaluates the weight of every out-bundle of every node it pops,
\* and it pops every node it reaches
DijkstraRaises(graph, source) ==
    LET D == Distances(graph, source)
    IN  \E u \in NodeIds(graph) : \E v \in NodeIds(graph) :
            D[u] # None /\ WeightRaises(graph, u, v)

\* nx.shortest_path_length(G, source=source, weight='travel_time'):
\* [ok |-> FALSE] when it raises, else the dict node -> length over the
\* nodes reached
shortest_path_length(graph, source) ==
    IF DijkstraRaises(graph, source) THEN [ok |-> FALSE, dist |-> <<>>]
    ELSE LET D == Distances(graph, source)
             R == {v \in NodeIds(graph) : D[v] # None}
         IN  [ok |-> TRUE, dist |-> [v \in R |-> D[v]]]

-----------------------------------------------------------------------------
(* AllStationsResponseAlgorithm.processAlgorithm *)

\* rank name -> number of units, in the dict's order
\* ("1 ранг", "1-бис", "2 ранг", "3 ранг", "4 ранг", "5 ранг")
fire_ranks == <<1, 2, 3, 4, 5, 6>>

\* float('inf')
Inf == <<1, 0>>

\* the parameter passed on as it came
FallbackSpeeds_keep(p) == p

\* lines 132-134: a parameter that is no list of 5 is replaced by the defaults
FallbackSpeeds(p) ==
    IF ~p.islist \/ Len(p.vals) # 5
    THEN [islist |-> TRUE, vals |-> DEFAULT_SPEEDS_KMH]
    ELSE p

GetParameters ==
    /\ pc = "params"
    /\ speeds_kmh' = FallbackSpeeds(speeds)
    /\ pc' = "graph"
    /\ UNCHANGED <<G, G0, speeds, impl, raised, fire_stations, objects,
                   station_nodes, objects_data, objects_nodes_set,
                   arrival_times_matrix, idx, obj_i, canceled, sink,
                   route_type, time_threshold, otherVars, feedbackVars>>

\* lines 188-193: build_graph_for_layers returned G;
\* set_graph_travel_times(G, speeds_kmh, kmh_to_mm)
BuildGraph ==
    /\ pc = "graph"
    /\ impl' = "graph_utils"
    /\ IF ProfileRejected(speeds_kmh)
       THEN /\ raised' = "ValueError"
            /\ pc' = "failed"
            /\ G' = G
       ELSE /\ raised' = "none"
            /\ pc' = "stations"
            /\ G' = WeightedGraph(G, speeds_kmh)
    /\ UNCHANGED <<G0, speeds, runVars, otherVars, feedbackVars>>

\* find_nearest_node raises ValueError (math domain error) in sin() when the
\* query coordinate is not finite and the scan reaches a node with coordinates
find_nearest_node_raises(graph, lat) ==
    /\ lat = Inf
    /\ \E k \in 1..Len(graph.nodes) :
          graph.nodes[k].x # None /\ graph.nodes[k].y # None

\* lines 204-216 over fire_stations[k..]; acc holds station_nodes, the errors
\* reported and the exception that left the loop.  geometry().asPoint() of a
\* feature without geometry raises ValueError, outside the try block
RECURSIVE resolve_stations(_, _, _)
resolve_stations(stations, k, acc) ==
    IF k > Len(stations) THEN acc
    ELSE IF stations[k].geom = "null"
    THEN [acc EXCEPT !.raised = "ValueError"]
    ELSE IF find_nearest_node_raises(G, stations[k].y)
    THEN resolve_stations(stations, k + 1,
            [acc EXCEPT !.reported =
                Append(@, [kind |-> "station_node", id |-> stations[k].id])])
    ELSE LET st_node == find_nearest_node(G, stations[k].y)
         IN  IF st_node = 0
             THEN resolve_stations(stations, k + 1,
                     [acc EXCEPT !.reported =
                         Append(@, [kind |-> "station_node",
                                    id |-> stations[k].id])])
             ELSE resolve_stations(stations, k + 1,
                     [acc EXCEPT !.d = DictSet(@, stations[k].name, st_node)])

\* Step 1, lines 200-219
ResolveStations ==
    /\ pc = "stations"
    /\ LET res == resolve_stations(fire_stations, 1,
                     [d |-> EmptyDict, reported |-> <<>>, raised |-> "none"])
       IN  /\ station_nodes' = res.d
           /\ reported' = reported \o res.reported
           /\ IF res.raised # "none"
              THEN /\ raised' = res.raised
                   /\ pc' = "failed"
              ELSE IF Len(res.d.keys) = 0
              THEN /\ raised' = "QgsProcessingException"
                   /\ pc' = "failed"
              ELSE /\ raised' = raised
                   /\ pc' = "objects"
    /\ UNCHANGED <<G, G0, speeds, impl, speeds_kmh, fire_stations, objects,
                   objects_data, objects_nodes_set, arrival_times_matrix,
                   idx, obj_i, canceled, sink,
                   route_type, time_threshold, otherVars, progress>>

\* lines 226-251 over objects[k..]
RECURSIVE prepare_objects(_, _, _)
prepare_objects(feats, k, data) ==
    IF k > Len(feats) THEN data
    ELSE IF feats[k].empty THEN prepare_objects(feats, k + 1, data)
    ELSE LET obj_node == find_nearest_node(G, feats[k].y)
         IN  IF obj_node # 0
             THEN prepare_objects(feats, k + 1,
                     Append(data, [id |-> feats[k].id, node |-> obj_node]))
             ELSE prepare_objects(feats, k + 1, data)

\* Step 2, lines 221-257
PrepareObjects ==
    /\ pc = "objects"
    /\ objects_data' = prepare_objects(objects, 1, <<>>)
    /\ objects_nodes_set' =
          {objects_data'[k].node : k \in 1..Len(objects_data')}
    /\ IF Len(objects_data') = 0
       THEN /\ raised' = "QgsProcessingException"
            /\ pc' = "failed"
       ELSE /\ raised' = raised
            /\ pc' = "matrix"
    /\ idx' = 0
    /\ arrival_times_matrix' = <<>>
    /\ UNCHANGED <<G, G0, speeds, impl, speeds_kmh, fire_stations, objects,
                   station_nodes, obj_i, canceled, sink,
                   route_type, time_threshold, otherVars, feedbackVars>>

\* a row written before the traversal is through: one reached target missing
StationRow_partial(station_node) ==
    LET res == shortest_path_length(G, station_node)
    IN  IF res.ok
        THEN LET full == DOMAIN res.dist \cap objects_nodes_set
             IN  [k \in {n \in full : \E o \in full : n < o} |-> res.dist[k]]
        ELSE <<>>

\* lines 271-287: the row of one station
StationRow(station_node) ==
    LET res == shortest_path_length(G, station_node)
    IN  IF res.ok
        THEN [k \in DOMAIN res.dist \cap objects_nodes_set |-> res.dist[k]]
        ELSE <<>>

\* matrix[name] = row
MatrixSet(matrix, name, row) ==
    [n \in DOMAIN matrix \cup {name} |-> IF n = name THEN row ELSE matrix[n]]

\* line 268: round(100 * idx / total_stations, 1)
progress_pct(i, total_stations) == RatRound(Rat(100 * i, total_stations), 10)

\* Step 3, lines 263-287: one iteration of the station loop; isCanceled()
\* is polled first and may have become true
MatrixStep ==
    /\ pc = "matrix"
    /\ \E c \in {canceled, TRUE} :
        /\ canceled' = c
        /\ IF c
           THEN /\ pc' = "aggregate"
                /\ UNCHANGED <<arrival_times_matrix, idx, feedbackVars>>
           ELSE LET station_name == station_nodes.keys[idx + 1]
                    station_node == station_nodes.val[station_name]
                    total_stations == Len(station_nodes.keys)
                IN  /\ progress' = Append(progress,
                                          progress_pct(idx, total_stations))
                    /\ arrival_times_matrix' =
                          MatrixSet(arrival_times_matrix, station_name,
                                    StationRow(station_node))
                    /\ reported' =
                          IF shortest_path_length(G, station_node).ok
                          THEN reported
                          ELSE Append(reported, [kind |-> "traversal",
                                                 name |-> station_name])
                    /\ idx' = idx + 1
                    /\ pc' = IF idx + 1 = Len(station_nodes.keys)
                             THEN "aggregate" ELSE "matrix"
    /\ obj_i' = 0
    /\ UNCHANGED <<G, G0, speeds, impl, raised, speeds_kmh, fire_stations,
                   objects, station_nodes, objects_data, objects_nodes_set,
                   sink, route_type, time_threshold, otherVars>>

\* lines 302-309 over station_nodes.keys()[k..]
RECURSIVE collect_station_times(_, _, _)
collect_station_times(keys, k, obj_node) ==
    IF k > Len(keys) THEN <<>>
    ELSE LET name == keys[k]
             row == IF name \in DOMAIN arrival_times_matrix
                    THEN arrival_times_matrix[name] ELSE <<>>
             rest == collect_station_times(keys, k + 1, obj_node)
         IN  IF obj_node \in DOMAIN row
             THEN <<[name |-> name, response_time_min |-> row[obj_node]]>>
                  \o rest
             ELSE rest

\* list.sort(key=response_time_min): stable, ascending
RECURSIVE insert_sorted(_, _)
insert_sorted(sorted, x) ==
    IF sorted = <<>> THEN <<x>>
    ELSE IF RatLess(x.response_time_min, Head(sorted).response_time_min)
         THEN <<x>> \o sorted
         ELSE <<Head(sorted)>> \o insert_sorted(Tail(sorted), x)

\* a variant that leaves the times in the order of the stations
sort_station_times_off(seq, k) == SubSeq(seq, 1, k)

RECURSIVE sort_station_times(_, _)
sort_station_times(seq, k) ==
    IF k = 0 THEN <<>>
    ELSE insert_sorted(sort_station_times(seq, k - 1), seq[k])

\* min(), max() of a non-empty list of floats
RECURSIVE seq_min(_)
seq_min(seq) ==
    IF Len(seq) = 1 THEN seq[1]
    ELSE LET r == seq_min(Tail(seq))
         IN  IF RatLess(r, Head(seq)) THEN r ELSE Head(seq)

RECURSIVE seq_max(_)
seq_max(seq) ==
    IF Len(seq) = 1 THEN seq[1]
    ELSE LET r == seq_max(Tail(seq))
         IN  IF RatLess(Head(seq), r) THEN r ELSE Head(seq)

\* a rank that forgets to cut the list to its units_count
selected_times_uncut(all_times, units_count) == all_times

\* lines 323-327: the times a rank of units_count units is computed from
selected_times(all_times, units_count) ==
    IF Len(all_times) < units_count THEN all_times
    ELSE SubSeq(all_times, 1, units_count)

\* lines 329-340
rank_result(selected) ==
    IF Len(selected) > 0
    THEN [min |-> seq_min(selected), max |-> seq_max(selected),
          avg |-> RatDivInt(RatSum(selected), Len(selected))]
    ELSE [min |-> Inf, max |-> Inf, avg |-> Inf]

\* [x for x in seq if x != float('inf')]
not_inf(seq) == SelectSeq(seq, LAMBDA x : x # Inf)

\* lines 347-349
overall_min(rank_results) ==
    LET all_min_times == not_inf([r \in DOMAIN rank_results |-> rank_results[r].min])
    IN  IF all_min_times # <<>> THEN seq_min(all_min_times) ELSE Inf

overall_max(rank_results) ==
    LET all_max_times == not_inf([r \in DOMAIN rank_results |-> rank_results[r].max])
    IN  IF all_max_times # <<>> THEN seq_max(all_max_times) ELSE Inf

\* a mean over the individual station times instead of over the ranks
overall_mean_of_times(rank_results) == rank_results[Len(rank_results)].avg

overall_mean(rank_results) ==
    LET all_avg_times == not_inf([r \in DOMAIN rank_results |-> rank_results[r].avg])
    IN  IF all_avg_times # <<>>
        THEN RatDivInt(RatSum(all_avg_times), Len(all_avg_times)) ELSE Inf

\* round(x, 1) if x != float('inf') else None
round1(x) == IF x # Inf THEN RatRound(x, 10) ELSE None

\* the threshold compared with < instead of <=
evaluate_strict(arrival_time_mean) ==
    IF arrival_time_mean # Inf /\ arrival_time_mean # None
    THEN IF RatLess(arrival_time_mean, Int2Rat(10))
         THEN "satisfactory" ELSE "unsatisfactory"
    ELSE ""

\* lines 369-375; the labels stand for "удовлетворительно" and
\* "не удовлетворительно", "" for None
evaluate(arrival_time_mean) ==
    IF arrival_time_mean # Inf /\ arrival_time_mean # None
    THEN IF RatLeq(arrival_time_mean, Int2Rat(10))
         THEN "satisfactory" ELSE "unsatisfactory"
    ELSE ""

\* lines 314-377: the feature of an object with the sorted station_times;
\* the fields of the written feature, then the locals they are rounded from
make_feature(obj_data, station_times) ==
    LET all_times == [k \in 1..Len(station_times) |->
                         station_times[k].response_time_min]
        rank_results == [r \in 1..Len(fire_ranks) |->
                            rank_result(selected_times(all_times, fire_ranks[r]))]
        arrival_time_min == overall_min(rank_results)
        arrival_time_max == overall_max(rank_results)
        arrival_time_mean == overall_mean(rank_results)
    IN  [object_id |-> obj_data.id,
         rank_min |-> [r \in 1..Len(fire_ranks) |-> round1(rank_results[r].min)],
         rank_max |-> [r \in 1..Len(fire_ranks) |-> round1(rank_results[r].max)],
         rank_avg |-> [r \in 1..Len(fire_ranks) |-> round1(rank_results[r].avg)],
         arrival_time_min |-> round1(arrival_time_min),
         arrival_time_max |-> round1(arrival_time_max),
         arrival_time_mean |-> round1(arrival_time_mean),
         evaluation |-> evaluate(arrival_time_mean),
         locals |-> [obj_node |-> obj_data.node,
                     station_times |-> station_times,
                     rank_results |-> rank_results,
                     arrival_time_min |-> arrival_time_min,
                     arrival_time_max |-> arrival_time_max,
                     arrival_time_mean |-> arrival_time_mean]]

\* a variant of the object loop without the test of the cancellation
object_loop_goes_on(c) == FALSE

\* lines 293-294: `if feedback.isCanceled(): break`
object_loop_breaks(c) == c

\* Step 4, lines 292-382: one iteration of the object loop
ObjectStep ==
    /\ pc = "aggregate"
    /\ \E c \in {canceled, TRUE} :
        /\ canceled' = c
        /\ IF object_loop_breaks(c)
           THEN /\ pc' = "done"
                /\ UNCHANGED <<sink, obj_i>>
           ELSE LET obj_data == objects_data[obj_i + 1]
                    unsorted == collect_station_times(station_nodes.keys, 1,
                                                      obj_data.node)
                    station_times == sort_station_times(unsorted, Len(unsorted))
                IN  /\ sink' = IF Len(unsorted) = 0 THEN sink
                               ELSE Append(sink, make_feature(obj_data, station_times))
                    /\ obj_i' = obj_i + 1
                    /\ pc' = IF obj_i + 1 = Len(objects_data)
                             THEN "done" ELSE "aggregate"
    /\ UNCHANGED <<G, G0, speeds, impl, raised, speeds_kmh, fire_stations,
                   objects, station_nodes, objects_data, objects_nodes_set,
                   arrival_times_matrix, idx, route_type, time_threshold, otherVars, feedbackVars>>

-----------------------------------------------------------------------------
(* Inputs of the all-stations specification *)

MaxStations == 2

Residential == [islist |-> FALSE, tags |-> <<"residential">>]

RunNodes == <<NewNode(1, 10), NewNode(2, 20), NewNode(3, 30)>>

\* a slot that holds no edge
NoEdge == Int2Rat(-1)

\* the edges a run graph may hold: end nodes, key, the lengths to choose from
RunSlots ==
    << [u |-> 1, v |-> 2, key |-> 0, lens |-> {Int2Rat(2000)}],
       [u |-> 1, v |-> 2, key |-> 1, lens |-> {NoEdge, Int2Rat(0), Int2Rat(600)}],
       [u |-> 2, v |-> 3, key |-> 0, lens |-> {NoEdge, Int2Rat(600)}],
       [u |-> 1, v |-> 3, key |-> 0, lens |-> {NoEdge, Int2Rat(2000)}] >>

SlotGraph(nodes, slots, choice) ==
    [nodes |-> nodes,
     edges |-> LET all == [k \in 1..Len(slots) |->
                              NewEdge(slots[k].u, slots[k].v, slots[k].key,
                                      Residential, choice[k])]
               IN  SelectSeq(all, LAMBDA e : e.length # NoEdge)]

SlotGraphs(nodes, slots) ==
    { SlotGraph(nodes, slots, choice) :
        choice \in { c \in [1..Len(slots) -> UNION {slots[k].lens : k \in 1..Len(slots)}] :
                       \A k \in 1..Len(slots) : c[k] \in slots[k].lens } }

RunGraphs == SlotGraphs(RunNodes, RunSlots)

\* the stations a layer may hold: name and latitude (10 resolves to node 1,
\* 20 to node 2); two of them share a name, two share a node
StationPoint(name, lat) == [name |-> name, y |-> Int2Rat(lat), geom |-> "point"]

StationPoints ==
    { StationPoint("A", 10), StationPoint("B", 20), StationPoint("C", 20),
      StationPoint("A", 20) }

\* a station whose coordinates are not finite, a station feature without
\* geometry
OddStations ==
    { [name |-> "D", y |-> Inf, geom |-> "point"],
      [name |-> "D", y |-> Int2Rat(10), geom |-> "null"] }

\* station layers: up to MaxStations point features; the feature id is the
\* position in the layer
LayersOf(points) ==
    UNION { { [k \in 1..n |-> [id |-> k, name |-> st[k].name, y |-> st[k].y,
                               geom |-> st[k].geom]] :
                st \in [1..n -> points] } :
            n \in 0..MaxStations }

\* layers of stations with point geometries and finite coordinates
StationLayers == LayersOf(StationPoints)

RunStationLayers == LayersOf(StationPoints \cup OddStations)

ObjectFeature(id, lat) == [id |-> id, y |-> Int2Rat(lat), empty |-> FALSE]

ObjectLayers ==
    { <<>>, <<ObjectFeature(1, 30)>>,
      <<ObjectFeature(1, 20), ObjectFeature(2, 30)>>,
      <<[id |-> 1, y |-> Int2Rat(20), empty |-> TRUE], ObjectFeature(2, 30)>> }

RunProfiles ==
    { [islist |-> TRUE, vals |-> BaseProfile],
      [islist |-> TRUE, vals |-> SubSeq(BaseProfile, 1, 4)],
      [islist |-> FALSE, vals |-> BaseProfile] }

Init ==
    /\ pc = "params"
    /\ G \in RunGraphs
    /\ G0 = G
    /\ speeds \in RunProfiles
    /\ impl = "none"
    /\ raised = "none"
    /\ speeds_kmh = <<>>
    /\ fire_stations \in RunStationLayers
    /\ objects \in ObjectLayers
    /\ station_nodes = EmptyDict
    /\ objects_data = <<>>
    /\ objects_nodes_set = {}
    /\ arrival_times_matrix = <<>>
    /\ idx = 0
    /\ obj_i = 0
    /\ canceled = FALSE
    /\ sink = <<>>
    /\ reported = <<>>
    /\ progress = <<>>
    /\ route_type = 0
    /\ time_threshold = Int2Rat(30)
    /\ OtherIdle

Next ==
    \/ GetParameters
    \/ BuildGraph
    \/ ResolveStations
    \/ PrepareObjects
    \/ MatrixStep
    \/ ObjectStep

Spec == Init /\ [][Next]_vars

-----------------------------------------------------------------------------
(* NearestFireStationAlgorithm.processAlgorithm and                         *)
(* ResponseTimeRoutesAlgorithm.processAlgorithm                              *)

\* node sequences of the graph without a repeated node
NodeSeqs(graph) ==
    LET N == NodeIds(graph)
    IN  { p \in UNION { [1..n -> N] : n \in 1..Cardinality(N) } :
            \A a, b \in 1..Len(p) : a # b => p[a] # p[b] }

\* the routes nx.shortest_path(graph, source, target, weight='travel_time')
\* may return: every hop lies on a shortest path tree of source; the empty
\* set when it raises NetworkXNoPath.  Defined for graphs none of whose
\* bundles makes the weight function raise.
ShortestRoutes(graph, source, target) ==
    LET D == Distances(graph, source)
    IN  IF D[target] = None THEN {}
        ELSE { p \in NodeSeqs(graph) :
                 /\ p[1] = source
                 /\ p[Len(p)] = target
                 /\ \A a \in 1..(Len(p) - 1) :
                      /\ Weight(graph, p[a], p[a + 1]) # None
                      /\ D[p[a]] # None
                      /\ D[p[a + 1]] =
                            RatAdd(D[p[a]], Weight(graph, p[a], p[a + 1])) }

\* the results of nx.shortest_path from one source, per target reached: the
\* library is deterministic, which of several shortest routes it returns is
\* not specified
RouteChoices(graph, source) ==
    LET SR == Evaluated([t \in NodeIds(graph) |->
                            ShortestRoutes(graph, source, t)])
        R == {t \in NodeIds(graph) : SR[t] # {}}
    IN  { f \in [R -> UNION {SR[t] : t \in R}] : \A t \in R : f[t] \in SR[t] }

\* a variant that keeps the first edge that carries a travel time
best_edge_first(graph, T) == CHOOSE k \in T : \A o \in T : k <= o

\* the edge of data.items() the loop of sum_route_time_and_length settles
\* on: the first one, in key order, with the least travel_time
best_edge_of(graph, T) ==
    CHOOSE k \in T :
        /\ \A o \in T : RatLeq(graph.edges[k].travel_time,
                                graph.edges[o].travel_time)
        /\ \A o \in T : (o < k) =>
               RatLess(graph.edges[k].travel_time, graph.edges[o].travel_time)

\* a or 0.0
OrZero(a) == IF Truthy(a) THEN a ELSE Zero

\* sum_route_time_and_length over the hops route_nodes[k..]
RECURSIVE sum_route_time_and_length(_, _, _)
sum_route_time_and_length(graph, route_nodes, k) ==
    IF k >= Len(route_nodes) THEN [time |-> Zero, len |-> Zero]
    ELSE LET data == Bundle(graph, route_nodes[k], route_nodes[k + 1])
             T == {e \in data : graph.edges[e].travel_time # None}
             rest == sum_route_time_and_length(graph, route_nodes, k + 1)
         IN  IF data = {} THEN rest
             ELSE LET ed == IF T = {}
                            THEN graph.edges[CHOOSE e \in data :
                                                \A o \in data : e <= o]
                            ELSE graph.edges[best_edge_of(graph, T)]
                  IN  [time |-> RatAdd(OrZero(ed.travel_time), rest.time),
                       len |-> RatAdd(OrZero(ed.length), rest.len)]

\* a < b where b may be float('inf')
LessThan(a, b) == a # Inf /\ (b = Inf \/ RatLess(a, b))

NearestGetParameters ==
    /\ pc = "nearest_params"
    /\ speeds_kmh' = FallbackSpeeds(speeds)
    /\ pc' = "nearest_graph"
    /\ UNCHANGED <<G, G0, speeds, impl, raised, fire_stations, objects,
                   station_nodes, objects_data, objects_nodes_set,
                   arrival_times_matrix, idx, obj_i, canceled, sink,
                   route_type, time_threshold, otherVars, feedbackVars>>

\* build_graph_for_layers returned G; set_graph_travel_times(G, speeds_kmh,
\* kmh_to_mm); the object loop is entered when the layer has a feature
NearestBuildGraph ==
    /\ pc = "nearest_graph"
    /\ impl' = "graph_utils"
    /\ IF ProfileRejected(speeds_kmh)
       THEN /\ raised' = "ValueError"
            /\ pc' = "failed"
            /\ G' = G
       ELSE /\ raised' = "none"
            /\ pc' = IF Len(objects) = 0 THEN "done" ELSE "nearest_loop"
            /\ G' = WeightedGraph(G, speeds_kmh)
    /\ UNCHANGED <<G0, speeds, runVars, otherVars, feedbackVars>>

\* the station loop over stations[k..] for one object; best holds
\* (best_time_min, best_distance_km, nearest_station_feature), station 0
\* standing for None
RECURSIVE nearest_station(_, _, _, _)
nearest_station(stations, k, routes, best) ==
    IF k > Len(stations) THEN best
    ELSE LET st_node == find_nearest_node(G, stations[k].y)
         IN  IF st_node = 0 \/ st_node \notin DOMAIN routes
             THEN nearest_station(stations, k + 1, routes, best)
             ELSE LET route == routes[st_node]
                      s == sum_route_time_and_length(G, route, 1)
                  IN  IF LessThan(s.time, best.best_time_min)
                      THEN nearest_station(stations, k + 1, routes,
                              [best_time_min |-> s.time,
                               best_distance_km |-> RatDivInt(s.len, 1000),
                               station |-> k,
                               st_node |-> st_node,
                               route |-> route])
                      ELSE nearest_station(stations, k + 1, routes, best)

\* the feature written for an object; locals are the values it is made from
nearest_feature(obj_feature, obj_node, best) ==
    [object_id |-> obj_feature.id,
     nearest_station |-> fire_stations[best.station].name,
     distance_km |-> RatRound(best.best_distance_km, 100),
     response_time_min |-> RatRound(best.best_time_min, 100),
     locals |-> [obj_node |-> obj_node,
                 st_node |-> best.st_node,
                 t_min |-> best.best_time_min,
                 route |-> best.route]]

\* one iteration of the object loop; an object left without a station is
\* reported with feedback.reportError
NearestObjectStep ==
    /\ pc = "nearest_loop"
    /\ \E c \in {canceled, TRUE} :
        /\ canceled' = c
        /\ IF c
           THEN /\ pc' = "done"
                /\ UNCHANGED <<sink, obj_i, reported>>
           ELSE LET obj_feature == objects[obj_i + 1]
                    obj_node == find_nearest_node(G, obj_feature.y)
                IN  /\ IF obj_feature.empty \/ obj_node = 0
                       THEN UNCHANGED <<sink, reported>>
                       ELSE \E routes \in RouteChoices(G, obj_node) :
                              LET best == nearest_station(fire_stations, 1, routes,
                                             [best_time_min |-> Inf,
                                              best_distance_km |-> Inf,
                                              station |-> 0,
                                              st_node |-> 0,
                                              route |-> <<>>])
                              IN  IF best.station # 0
                                  THEN /\ sink' = Append(sink,
                                                  nearest_feature(obj_feature,
                                                                  obj_node, best))
                                       /\ reported' = reported
                                  ELSE /\ sink' = sink
                                       /\ reported' =
                                             Append(reported,
                                                    [kind |-> "no_station",
                                                     id |-> obj_feature.id])
                    /\ obj_i' = obj_i + 1
                    /\ pc' = IF obj_i + 1 = Len(objects)
                             THEN "done" ELSE "nearest_loop"
    /\ UNCHANGED <<G, G0, speeds, impl, raised, speeds_kmh, fire_stations,
                   objects, station_nodes, objects_data, objects_nodes_set,
                   arrival_times_matrix, idx, route_type, time_threshold,
                   otherVars, progress>>

RoutesGetParameters ==
    /\ pc = "routes_params"
    /\ speeds_kmh' = FallbackSpeeds(speeds)
    /\ pc' = "routes_graph"
    /\ UNCHANGED <<G, G0, speeds, impl, raised, fire_stations, objects,
                   station_nodes, objects_data, objects_nodes_set,
                   arrival_times_matrix, idx, obj_i, canceled, sink,
                   route_type, time_threshold, otherVars, feedbackVars>>

RoutesBuildGraph ==
    /\ pc = "routes_graph"
    /\ impl' = "graph_utils"
    /\ IF ProfileRejected(speeds_kmh)
       THEN /\ raised' = "ValueError"
            /\ pc' = "failed"
            /\ G' = G
       ELSE /\ raised' = "none"
            /\ pc' = IF Len(objects) = 0 THEN "done" ELSE "routes_loop"
            /\ G' = WeightedGraph(G, speeds_kmh)
    /\ UNCHANGED <<G0, speeds, runVars, otherVars, feedbackVars>>

\* osmnx.distance.nearest_nodes on an unprojected graph: the node at the
\* least great-circle distance
nearest_nodes(graph, lat) == find_nearest_node(graph, lat)

\* compute_time_and_route: (route_nodes, t_min, total_len), route_nodes = <<>>
\* standing for None
compute_time_and_route(station_feature, routes) ==
    LET st_node == nearest_nodes(G, station_feature.y)
    IN  IF st_node \in DOMAIN routes
        THEN LET s == sum_route_time_and_length(G, routes[st_node], 1)
             IN  [route_nodes |-> routes[st_node], t_min |-> s.time,
                  total_len |-> s.len, station |-> station_feature.id]
        ELSE [route_nodes |-> <<>>, t_min |-> Inf, total_len |-> Inf,
              station |-> station_feature.id]

\* route_type 0: the loop over stations[k..] keeping the best tuple
RECURSIVE best_route(_, _, _, _)
best_route(stations, k, routes, best) ==
    IF k > Len(stations) THEN best
    ELSE LET r == compute_time_and_route(stations[k], routes)
         IN  IF LessThan(r.t_min, best.t_min)
             THEN best_route(stations, k + 1, routes, r)
             ELSE best_route(stations, k + 1, routes, best)

\* route_type 1 and 2: the loop over stations[k..] collecting the tuples
RECURSIVE collect_routes(_, _, _)
collect_routes(stations, k, routes) ==
    IF k > Len(stations) THEN <<>>
    ELSE LET r == compute_time_and_route(stations[k], routes)
             rest == collect_routes(stations, k + 1, routes)
         IN  IF /\ r.route_nodes # <<>>
                /\ (route_type = 1 \/ RatLeq(r.t_min, time_threshold))
             THEN <<r>> \o rest
             ELSE rest

routes_to_write(routes) ==
    IF route_type = 0
    THEN LET best == best_route(fire_stations, 1, routes,
                        [route_nodes |-> <<>>, t_min |-> Inf,
                         total_len |-> Inf, station |-> 0])
         IN  IF best.route_nodes # <<>> THEN <<best>> ELSE <<>>
    ELSE collect_routes(fire_stations, 1, routes)

route_type_names == <<"nearest", "all", "within_threshold">>

route_feature(obj_id, obj_node, r) ==
    [object_id |-> obj_id,
     station_name |-> fire_stations[r.station].name,
     distance_km |-> RatRound(RatDivInt(r.total_len, 1000), 100),
     response_time_min |-> RatRound(r.t_min, 100),
     route_type |-> route_type_names[route_type + 1],
     locals |-> [obj_node |-> obj_node,
                 st_node |-> r.route_nodes[Len(r.route_nodes)],
                 t_min |-> r.t_min,
                 route |-> r.route_nodes]]

\* the writing loop over to_write[k..]: a route of fewer than 2 points is
\* skipped
RECURSIVE write_routes(_, _, _, _)
write_routes(to_write, k, obj_id, obj_node) ==
    IF k > Len(to_write) THEN <<>>
    ELSE LET rest == write_routes(to_write, k + 1, obj_id, obj_node)
         IN  IF Len(to_write[k].route_nodes) < 2 THEN rest
             ELSE <<route_feature(obj_id, obj_node, to_write[k])>> \o rest

\* one iteration of the object loop
RoutesObjectStep ==
    /\ pc = "routes_loop"
    /\ \E c \in {canceled, TRUE} :
        /\ canceled' = c
        /\ IF c
           THEN /\ pc' = "done"
                /\ UNCHANGED <<sink, obj_i>>
           ELSE LET obj_feature == objects[obj_i + 1]
                    obj_node == nearest_nodes(G, obj_feature.y)
                IN  /\ IF obj_feature.empty
                       THEN sink' = sink
                       ELSE \E routes \in RouteChoices(G, obj_node) :
                              sink' = sink \o
                                  write_routes(routes_to_write(routes), 1,
                                               obj_feature.id, obj_node)
                    /\ obj_i' = obj_i + 1
                    /\ pc' = IF obj_i + 1 = Len(objects)
                             THEN "done" ELSE "routes_loop"
    /\ UNCHANGED <<G, G0, speeds, impl, raised, speeds_kmh, fire_stations,
                   objects, station_nodes, objects_data, objects_nodes_set,
                   arrival_times_matrix, idx, route_type, time_threshold, otherVars, feedbackVars>>

-----------------------------------------------------------------------------
(* Inputs of the nearest-station and routes specification *)

\* one-way and two-way streets between the three nodes, one pair of parallel
\* edges, one edge of length 0
PathSlots ==
    << [u |-> 1, v |-> 2, key |-> 0, lens |-> {Int2Rat(2000)}],
       [u |-> 2, v |-> 1, key |-> 0, lens |-> {NoEdge, Int2Rat(600)}],
       [u |-> 2, v |-> 1, key |-> 1, lens |-> {NoEdge, Int2Rat(2000)}],
       [u |-> 2, v |-> 3, key |-> 0, lens |-> {NoEdge, Int2Rat(0), Int2Rat(600)}],
       [u |-> 3, v |-> 2, key |-> 0, lens |-> {NoEdge, Int2Rat(600)}] >>

PathGraphs == SlotGraphs(RunNodes, PathSlots)

PathProfiles ==
    { [islist |-> TRUE, vals |-> BaseProfile],
      [islist |-> FALSE, vals |-> BaseProfile] }

InitPaths ==
    /\ pc \in {"nearest_params", "routes_params"}
    /\ G \in PathGraphs
    /\ G0 = G
    /\ speeds \in PathProfiles
    /\ impl = "none"
    /\ raised = "none"
    /\ speeds_kmh = <<>>
    /\ fire_stations \in StationLayers
    /\ objects \in ObjectLayers
    /\ station_nodes = EmptyDict
    /\ objects_data = <<>>
    /\ objects_nodes_set = {}
    /\ arrival_times_matrix = <<>>
    /\ idx = 0
    /\ obj_i = 0
    /\ canceled = FALSE
    /\ sink = <<>>
    /\ reported = <<>>
    /\ progress = <<>>
    /\ route_type \in IF pc = "routes_params" THEN {0, 1, 2} ELSE {0}
    /\ time_threshold \in IF route_type = 2
                          THEN {Int2Rat(10), Int2Rat(30)} ELSE {Int2Rat(30)}
    /\ OtherIdle

NextPaths ==
    \/ NearestGetParameters
    \/ NearestBuildGraph
    \/ NearestObjectStep
    \/ RoutesGetParameters
    \/ RoutesBuildGraph
    \/ RoutesObjectStep

SpecPaths == InitPaths /\ [][NextPaths]_vars

-----------------------------------------------------------------------------
(* find_nearest_node as an operation of its own *)

MaxNodes == 3

\* the attributes a node may carry: coordinates on the meridian x = 0, or a
\* node that lacks x or y
NodeAttrs ==
    { [x |-> Int2Rat(0), y |-> Int2Rat(10)],
      [x |-> Int2Rat(0), y |-> Int2Rat(20)],
      [x |-> Int2Rat(0), y |-> Int2Rat(30)],
      [x |-> None, y |-> Int2Rat(20)],
      [x |-> Int2Rat(0), y |-> None] }

\* graphs of 0..MaxNodes nodes: every order of insertion of distinct ids
NodeGraphs ==
    UNION { { [nodes |-> [k \in 1..n |->
                            [id |-> ids[k], x |-> at[k].x, y |-> at[k].y]],
               edges |-> <<>>] :
                ids \in { f \in [1..n -> 1..MaxNodes] :
                            \A a, b \in 1..n : a # b => f[a] # f[b] },
                at \in [1..n -> NodeAttrs] } :
            n \in 0..MaxNodes }

QueryLats == { Int2Rat(12), Int2Rat(15), Int2Rat(20) }

InitNode ==
    /\ pc = "nearest_call"
    /\ G \in NodeGraphs
    /\ G0 = G
    /\ speeds = <<>>
    /\ impl = "none"
    /\ raised = "none"
    /\ speeds_kmh = <<>>
    /\ fire_stations = <<>>
    /\ objects = <<>>
    /\ station_nodes = EmptyDict
    /\ objects_data = <<>>
    /\ objects_nodes_set = {}
    /\ arrival_times_matrix = <<>>
    /\ idx = 0
    /\ obj_i = 0
    /\ canceled = FALSE
    /\ sink = <<>>
    /\ reported = <<>>
    /\ progress = <<>>
    /\ route_type = 0
    /\ time_threshold = Int2Rat(30)
    /\ query_lat \in QueryLats
    /\ nearest = 0
    /\ AtmIdle
    /\ CacheIdle
    /\ ExtraIdle

\* nearest_node = find_nearest_node(G, lon, lat)
FindNearestNode ==
    /\ pc = "nearest_call"
    /\ nearest' = find_nearest_node(G, query_lat)
    /\ pc' = "nearest_done"
    /\ UNCHANGED <<G, G0, speeds, impl, raised, runVars, query_lat, atmVars,
                   cacheVars, extraVars, feedbackVars>>

NextNode == FindNearestNode

SpecNode == InitNode /\ [][NextNode]_vars

-----------------------------------------------------------------------------
(* ATM_Algorithm.processAlgorithm (arrival-time matrix)                      *)

\* the table with the column of one unit merged in (how='left' on the node
\* column): a node the traversal did not reach gets no value; a column
\* name already present gets the suffixes _x / _y
merge_times(gdf, times, unit_name) ==
    LET clash == {c \in 1..Len(gdf.columns) :
                    gdf.columns[c].name = unit_name /\ gdf.columns[c].suffix = ""}
        left == [c \in 1..Len(gdf.columns) |->
                    IF c \in clash THEN [gdf.columns[c] EXCEPT !.suffix = "_x"]
                    ELSE gdf.columns[c]]
        col == [r \in 1..Len(gdf.rows) |->
                   IF gdf.rows[r].node \in DOMAIN times
                   THEN times[gdf.rows[r].node] ELSE None]
    IN  [gdf EXCEPT !.columns =
            Append(left, [name |-> unit_name,
                          suffix |-> IF clash = {} THEN "" ELSE "_y",
                          values |-> col])]

\* lines 249-276 over the unit features units[k..]
RECURSIVE units_dict(_, _, _)
units_dict(units, k, d) ==
    IF k > Len(units) THEN d
    ELSE units_dict(units, k + 1,
                    DictSet(d, nearest_nodes(G, units[k].y), units[k].name))

\* lines 223-277: the graph is read, targets and units get their nodes
ATMPrepare ==
    /\ pc = "atm_prepare"
    /\ target_layer_gdf' =
          [rows |-> [k \in 1..Len(objects) |->
                        [id |-> objects[k].id,
                         node |-> nearest_nodes(G, objects[k].y)]],
           columns |-> <<>>]
    /\ existed_units_dict' = units_dict(fire_stations, 1, EmptyDict)
    /\ progress' = progress \o <<5, 25, 35>>
    /\ unit_i' = 0
    /\ pc' = IF Len(existed_units_dict'.keys) = 0 THEN "atm_save" ELSE "atm_units"
    /\ UNCHANGED <<G, G0, speeds, impl, raised, runVars, query_lat, nearest, extraVars,
                   delay_time, cacheVars, reported>>

\* lines 287-299: one iteration of the unit loop
ATMUnitStep ==
    /\ pc = "atm_units"
    /\ LET node == existed_units_dict.keys[unit_i + 1]
           unit_name == existed_units_dict.val[node]
           D == Distances(G, node)
           times == [v \in {w \in NodeIds(G) : D[w] # None} |->
                        RatAdd(D[v], delay_time)]
       IN  target_layer_gdf' = merge_times(target_layer_gdf, times, unit_name)
    /\ progress' = Append(progress, 40 + unit_i * 55)
    /\ unit_i' = unit_i + 1
    /\ pc' = IF unit_i + 1 = Len(existed_units_dict.keys)
             THEN "atm_save" ELSE "atm_units"
    /\ UNCHANGED <<G, G0, speeds, impl, raised, runVars, query_lat, nearest, extraVars,
                   existed_units_dict, delay_time, cacheVars, reported>>

\* lines 302-327: the table is written to the output file
ATMSave ==
    /\ pc = "atm_save"
    /\ progress' = progress \o <<95, 100>>
    /\ sink' = [r \in 1..Len(target_layer_gdf.rows) |->
                   [id |-> target_layer_gdf.rows[r].id,
                    times |-> [c \in 1..Len(target_layer_gdf.columns) |->
                        [name |-> target_layer_gdf.columns[c].name,
                         suffix |-> target_layer_gdf.columns[c].suffix,
                         value |-> target_layer_gdf.columns[c].values[r]]]]]
    /\ pc' = "done"
    /\ UNCHANGED <<G, G0, speeds, impl, raised, speeds_kmh, fire_stations,
                   objects, station_nodes, objects_data, objects_nodes_set,
                   arrival_times_matrix, idx, obj_i, canceled, route_type,
                   time_threshold, otherVars, reported>>

\* road graphs whose weight field holds a number on every edge
ATMSlots ==
    << [u |-> 1, v |-> 2, key |-> 0, lens |-> {Int2Rat(2000)}],
       [u |-> 2, v |-> 1, key |-> 0, lens |-> {NoEdge, Int2Rat(600)}],
       [u |-> 2, v |-> 3, key |-> 0, lens |-> {NoEdge, Int2Rat(600)}],
       [u |-> 1, v |-> 3, key |-> 0, lens |-> {NoEdge, Int2Rat(2000)}] >>

ATMGraphs ==
    { WeightedGraph(g, [islist |-> TRUE, vals |-> DEFAULT_SPEEDS_KMH]) :
        g \in SlotGraphs(RunNodes, ATMSlots) }

\* target layers: every feature has a geometry
ATMTargetLayers == { l \in ObjectLayers : \A k \in 1..Len(l) : ~l[k].empty }

InitATM ==
    /\ pc = "atm_prepare"
    /\ G \in ATMGraphs
    /\ G0 = G
    /\ speeds = <<>>
    /\ impl = "none"
    /\ raised = "none"
    /\ speeds_kmh = <<>>
    /\ fire_stations \in StationLayers
    /\ objects \in ATMTargetLayers
    /\ station_nodes = EmptyDict
    /\ objects_data = <<>>
    /\ objects_nodes_set = {}
    /\ arrival_times_matrix = <<>>
    /\ idx = 0
    /\ obj_i = 0
    /\ canceled = FALSE
    /\ sink = <<>>
    /\ reported = <<>>
    /\ progress = <<>>
    /\ route_type = 0
    /\ time_threshold = Int2Rat(30)
    /\ query_lat = <<>>
    /\ nearest = 0
    /\ existed_units_dict = EmptyDict
    /\ target_layer_gdf = [rows |-> <<>>, columns |-> <<>>]
    /\ unit_i = 0
    /\ delay_time \in {Int2Rat(0), Int2Rat(1)}
    /\ CacheIdle
    /\ ExtraIdle

NextATM ==
    \/ ATMPrepare
    \/ ATMUnitStep
    \/ ATMSave

SpecATM == InitATM /\ [][NextATM]_vars

-----------------------------------------------------------------------------
(* Graph cache: _get_cache_key, load_graph_from_cache, save_graph_to_cache   *)

EmptyGraph == [nodes |-> <<>>, edges |-> <<>>]

\* no file graph_<key>.pkl in the cache directory
NoFile == [exists |-> FALSE, bytes |-> <<>>]

\* the result of a load that returned None
NoGraph == [ok |-> FALSE, graph |-> EmptyGraph]

\* the key string, from which the md5 digest is taken (the digest is taken
\* as one-to-one)
get_cache_key(extent, buffer_m) ==
    <<extent.xMinimum, extent.yMinimum, extent.xMaximum, extent.yMaximum,
      buffer_m>>

Token(op, id, data) == [op |-> op, id |-> id, data |-> data]

\* the members of a sequence, each once, in the order of first occurrence
RECURSIVE uniq(_, _, _)
uniq(seq, k, acc) ==
    IF k > Len(seq) THEN acc
    ELSE uniq(seq, k + 1,
              IF \E j \in 1..Len(acc) : acc[j] = seq[k] THEN acc
              ELSE Append(acc, seq[k]))

RECURSIVE concat(_, _)
concat(seqs, k) ==
    IF k > Len(seqs) THEN <<>> ELSE seqs[k] \o concat(seqs, k + 1)

\* pickle of graph._adj[u]: neighbour -> key -> attribute dict
adj_tokens(graph, u) ==
    LET out == SelectSeq(graph.edges, LAMBDA e : e.u = u)
        nbrs == uniq([k \in 1..Len(out) |-> out[k].v], 1, <<>>)
        keydict(v) ==
            LET es == SelectSeq(out, LAMBDA e : e.v = v)
            IN  [k \in 1..Len(es) |->
                    Token("EDGE", es[k].key,
                          <<es[k].highway, es[k].length, es[k].maxspeed,
                            es[k].travel_time>>)]
    IN  <<Token("ADJ", u, <<>>)>> \o
        concat([k \in 1..Len(nbrs) |->
                   <<Token("NBR", nbrs[k], <<>>)>> \o keydict(nbrs[k])], 1)

\* pickle.dump(graph, f): the node dict, then the adjacency dict
pickle_dump(graph) ==
    <<Token("PROTO", 0, <<>>)>> \o
    [k \in 1..Len(graph.nodes) |->
        Token("NODE", graph.nodes[k].id, <<graph.nodes[k].x, graph.nodes[k].y>>)] \o
    concat([k \in 1..Len(graph.nodes) |-> adj_tokens(graph, graph.nodes[k].id)], 1) \o
    <<Token("STOP", 0, <<>>)>>

\* the position of the first STOP, where pickle.load ends; 0 without one
FirstStop(bytes) ==
    IF \E k \in 1..Len(bytes) : bytes[k].op = "STOP"
    THEN CHOOSE k \in 1..Len(bytes) :
            bytes[k].op = "STOP" /\ \A j \in 1..(k - 1) : bytes[j].op # "STOP"
    ELSE 0

\* pickle.load raises on a stream that does not run from PROTO to STOP or
\* that holds zero bytes (a hole of the file) before the STOP
unpickle_raises(bytes) ==
    \/ Len(bytes) < 2
    \/ bytes[1].op # "PROTO"
    \/ FirstStop(bytes) = 0
    \/ \E k \in 1..FirstStop(bytes) : bytes[k].op = "ZERO"

\* a variant that forgets the keys of parallel edges
RECURSIVE unpickle_edges_nokeys(_, _, _, _, _)
unpickle_edges_nokeys(bytes, k, u, v, acc) ==
    IF k > Len(bytes) THEN acc
    ELSE LET t == bytes[k]
         IN  IF t.op = "ADJ" THEN unpickle_edges_nokeys(bytes, k + 1, t.id, v, acc)
             ELSE IF t.op = "NBR" THEN unpickle_edges_nokeys(bytes, k + 1, u, t.id, acc)
             ELSE IF t.op = "EDGE"
                  THEN unpickle_edges_nokeys(bytes, k + 1, u, v,
                           Append(SelectSeq(acc, LAMBDA e : ~(e.u = u /\ e.v = v)),
                                  [u |-> u, v |-> v, key |-> 0,
                                   highway |-> t.data[1], length |-> t.data[2],
                                   maxspeed |-> t.data[3],
                                   travel_time |-> t.data[4]]))
             ELSE unpickle_edges_nokeys(bytes, k + 1, u, v, acc)

\* the edges of the adjacency dict read from bytes[k..]
RECURSIVE unpickle_edges(_, _, _, _, _)
unpickle_edges(bytes, k, u, v, acc) ==
    IF k > Len(bytes) THEN acc
    ELSE LET t == bytes[k]
         IN  IF t.op = "ADJ" THEN unpickle_edges(bytes, k + 1, t.id, v, acc)
             ELSE IF t.op = "NBR" THEN unpickle_edges(bytes, k + 1, u, t.id, acc)
             ELSE IF t.op = "EDGE"
                  THEN unpickle_edges(bytes, k + 1, u, v,
                           Append(acc,
                                  [u |-> u, v |-> v, key |-> t.id,
                                   highway |-> t.data[1], length |-> t.data[2],
                                   maxspeed |-> t.data[3],
                                   travel_time |-> t.data[4]]))
             ELSE unpickle_edges(bytes, k + 1, u, v, acc)

\* pickle.load(f)
pickle_load(bytes) ==
    LET read == SubSeq(bytes, 1, FirstStop(bytes))
        ns == SelectSeq(read, LAMBDA t : t.op = "NODE")
    IN  [nodes |-> [k \in 1..Len(ns) |->
                       [id |-> ns[k].id, x |-> ns[k].data[1], y |-> ns[k].data[2]]],
         edges |-> unpickle_edges(read, 1, 0, 0, <<>>)]

\* _get_cache_path: os.makedirs(cache_dir, exist_ok=True) raises when the
\* directory is not there and cannot be created
get_cache_path_raises(dir) == dir = "denied"

load_graph_from_cache(files, key) ==
    IF ~files[key].exists THEN NoGraph
    ELSE IF unpickle_raises(files[key].bytes) THEN NoGraph
    ELSE [ok |-> TRUE, graph |-> pickle_load(files[key].bytes)]

\* what the file system does to a write: the whole stream is written, the
\* file cannot be opened, or the write breaks off after the file was
\* truncated or after part of the stream
IOOutcomes == {"ok", "open_fails", "empty", "partial"}

save_graph_to_cache(files, graph, key, io) ==
    LET stream == pickle_dump(graph)
        written == IF io = "ok" THEN stream
                   ELSE IF io = "empty" THEN <<>>
                   ELSE SubSeq(stream, 1, Len(stream) \div 2)
    IN  IF io = "open_fails" THEN [files |-> files, ret |-> FALSE]
        ELSE [files |-> [files EXCEPT ![key] = [exists |-> TRUE, bytes |-> written]],
              ret |-> io = "ok"]

\* extents of the two layers of a request and the default buffer_m
Extents ==
    { [xMinimum |-> 0, yMinimum |-> 10, xMaximum |-> 0, yMaximum |-> 20],
      [xMinimum |-> 0, yMinimum |-> 10, xMaximum |-> 0, yMaximum |-> 30] }

DefaultBuffer == 500

CacheKeys == { get_cache_key(e, DefaultBuffer) : e \in Extents }

\* graphs handed to the cache: insertion order of the edges differs from
\* adjacency order, with and without a parallel edge, with and without
\* travel times
CacheSlots ==
    << [u |-> 2, v |-> 3, key |-> 0, lens |-> {Int2Rat(600)}],
       [u |-> 1, v |-> 3, key |-> 0, lens |-> {Int2Rat(2000)}],
       [u |-> 1, v |-> 2, key |-> 0, lens |-> {Int2Rat(2000)}],
       [u |-> 1, v |-> 2, key |-> 1, lens |-> {NoEdge, Int2Rat(600)}] >>

DownloadedGraphs == SlotGraphs(RunNodes, CacheSlots)

CacheGraphs ==
    DownloadedGraphs \cup
    { WeightedGraph(g, [islist |-> TRUE, vals |-> DEFAULT_SPEEDS_KMH]) :
        g \in DownloadedGraphs }

\* the cache directory before the first call: no file, or an unreadable one
InitFiles ==
    [CacheKeys -> {NoFile, [exists |-> TRUE, bytes |-> <<>>]}]

CachePcs == {"cache_call", "saved", "loaded", "cache_raised"}

SaveGraphToCache ==
    /\ pc \in CachePcs
    /\ \E graph \in CacheGraphs, key \in CacheKeys, io \in IOOutcomes :
          LET r == save_graph_to_cache(cache_files, graph, key, io)
          IN  IF get_cache_path_raises(cache_dir)
              THEN /\ raised' = "PermissionError"
                   /\ pc' = "cache_raised"
                   /\ UNCHANGED <<cache_files, saved_ok, saved_graph, cache_key>>
              ELSE /\ cache_files' = r.files
                   /\ saved_ok' = r.ret
                   /\ saved_graph' = graph
                   /\ cache_key' = key
                   /\ raised' = "none"
                   /\ pc' = "saved"
    /\ UNCHANGED <<G, G0, speeds, impl, runVars, query_lat, nearest, extraVars,
                   atmVars, cache_dir,
                   cached_graph, request, requests, downloads, feedbackVars>>

LoadGraphFromCache ==
    /\ pc \in CachePcs
    /\ \E key \in CacheKeys :
          LET r == load_graph_from_cache(cache_files, key)
          IN  IF get_cache_path_raises(cache_dir)
              THEN /\ raised' = "PermissionError"
                   /\ pc' = "cache_raised"
                   /\ UNCHANGED cached_graph
              ELSE /\ cached_graph' = [key |-> key, ok |-> r.ok, graph |-> r.graph]
                   /\ raised' = "none"
                   /\ pc' = "loaded"
    /\ UNCHANGED <<G, G0, speeds, impl, runVars, query_lat, nearest, extraVars,
                   atmVars, cache_dir,
                   cache_files, cache_key, saved_graph, saved_ok,
                   request, requests, downloads, feedbackVars>>

InitCacheVars ==
    /\ cache_dir \in {"ok", "denied"}
    /\ cache_files \in IF cache_dir = "ok" THEN InitFiles
                      ELSE {[k \in CacheKeys |-> NoFile]}
    /\ cache_key = <<>>
    /\ saved_graph = EmptyGraph
    /\ saved_ok = FALSE
    /\ cached_graph = [key |-> <<>>, ok |-> FALSE, graph |-> EmptyGraph]
    /\ request = <<>>
    /\ requests = 0
    /\ downloads = 0

InitIdleRun ==
    /\ G = EmptyGraph
    /\ G0 = G
    /\ speeds = <<>>
    /\ impl = "none"
    /\ raised = "none"
    /\ speeds_kmh = <<>>
    /\ fire_stations = <<>>
    /\ objects = <<>>
    /\ station_nodes = EmptyDict
    /\ objects_data = <<>>
    /\ objects_nodes_set = {}
    /\ arrival_times_matrix = <<>>
    /\ idx = 0
    /\ obj_i = 0
    /\ canceled = FALSE
    /\ sink = <<>>
    /\ reported = <<>>
    /\ progress = <<>>
    /\ route_type = 0
    /\ time_threshold = Int2Rat(30)
    /\ query_lat = <<>>
    /\ nearest = 0
    /\ AtmIdle
    /\ ExtraIdle

InitCache ==
    /\ pc = "cache_call"
    /\ InitIdleRun
    /\ InitCacheVars

NextCache ==
    \/ SaveGraphToCache
    \/ LoadGraphFromCache

SpecCache == InitCache /\ [][NextCache]_vars

-----------------------------------------------------------------------------
(* build_graph_for_layers                                                    *)

MaxRequests == 3

\* a variant that never takes the cached graph
use_cached_never(cached) == FALSE

\* `if cached_graph is not None`
use_cached(cached) == cached.ok

\* one call: its layers (their extent; road_layer given or not), use_cache,
\* whether osmnx was imported, the graph OSM answers with, and how the write
\* of the cache file ends
BuildGraphForLayers ==
    /\ pc \in {"build_call", "built", "build_failed", "weighted"}
    /\ requests < MaxRequests
    /\ \E extent \in Extents, road_layer \in BOOLEAN, use_cache \in BOOLEAN,
          ox \in BOOLEAN, osm \in DownloadedGraphs, io \in IOOutcomes :
          LET key == get_cache_key(extent, DefaultBuffer)
              cached == IF use_cache /\ ~road_layer
                        THEN load_graph_from_cache(cache_files, key)
                        ELSE NoGraph
              hit == use_cache /\ use_cached(cached)
              downloaded == ~road_layer /\ ~hit /\ ox
              path_raises == use_cache /\ ~road_layer /\
                             get_cache_path_raises(cache_dir)
          IN  /\ request' = [key |-> key, road_layer |-> road_layer,
                              use_cache |-> use_cache, osm |-> osm]
              /\ IF path_raises
                 THEN /\ raised' = "PermissionError"
                      /\ pc' = "build_failed"
                      /\ UNCHANGED <<cached_graph, G, downloads, cache_files>>
                 ELSE
                 /\ cached_graph' = [key |-> key, ok |-> cached.ok,
                                      graph |-> cached.graph]
                 /\ G' = IF road_layer THEN osm
                          ELSE IF hit THEN cached.graph
                          ELSE IF ox THEN osm
                          ELSE G
                 /\ raised' = IF road_layer \/ hit \/ ox THEN "none"
                               ELSE "RuntimeError"
                 /\ pc' = IF road_layer \/ hit \/ ox THEN "built"
                           ELSE "build_failed"
                 /\ downloads' = IF downloaded THEN downloads + 1 ELSE downloads
                 /\ cache_files' =
                       IF downloaded /\ use_cache
                       THEN save_graph_to_cache(cache_files, osm, key, io).files
                       ELSE cache_files
    /\ requests' = requests + 1
    /\ UNCHANGED <<G0, speeds, impl, runVars, query_lat, nearest, extraVars, atmVars,
                   cache_dir, cache_key, saved_graph, saved_ok, feedbackVars>>

InitBuild ==
    /\ pc = "build_call"
    /\ InitIdleRun
    /\ InitCacheVars

NextBuild == BuildGraphForLayers

SpecBuild == InitBuild /\ [][NextBuild]_vars

-----------------------------------------------------------------------------
(* The graph of a run: build_graph_for_layers, then set_graph_travel_times  *)
(* (all_stations_response_algorithm.py, lines 187-192)                       *)

\* the speed profiles of the runs, after the check of lines 132-134
CachedRunProfiles ==
    { [islist |-> TRUE, vals |-> DEFAULT_SPEEDS_KMH],
      [islist |-> TRUE, vals |-> BaseProfile] }

\* line 192: set_graph_travel_times(G, speeds_kmh, kmh_to_mm) on the graph
\* build_graph_for_layers returned
ApplySpeeds ==
    /\ pc = "built"
    /\ \E profile \in CachedRunProfiles :
          /\ speeds' = profile
          /\ speeds_kmh' = profile
          /\ G' = WeightedGraph(G, profile)
    /\ pc' = "weighted"
    /\ UNCHANGED <<G0, impl, raised, fire_stations, objects, station_nodes,
                   objects_data, objects_nodes_set, arrival_times_matrix, idx,
                   obj_i, canceled, sink, route_type, time_threshold,
                   otherVars, feedbackVars>>

NextCachedRun ==
    \/ BuildGraphForLayers
    \/ ApplySpeeds

SpecCachedRun == InitBuild /\ [][NextCachedRun]_vars

-----------------------------------------------------------------------------
(* FirstArrivalUnitAlgorithm.processAlgorithm (first_arrival_unit.py)       *)

MaxRows == 2

\* the values of a time column: NaN/None or minutes
TimeVals == {None, Int2Rat(3), Int2Rat(5)}

\* the values of the name field of the units layer, in layer order
UnitLayers == { <<"A", "B">>, <<"B", "A", "B">>, <<"A">> }

\* the time columns of the matrix layer
ColumnLists == { <<"A", "B">>, <<"A">> }

ColumnSet(cols) == {cols[k] : k \in 1..Len(cols)}

\* the matrix layer: no feature (and then no column), or 1..MaxRows rows
ArrivalFrames ==
    { [columns |-> <<>>, rows |-> <<>>] } \cup
    UNION { { [columns |-> cols, rows |-> rs] :
                rs \in UNION { [1..n -> [ColumnSet(cols) -> TimeVals]] :
                                 n \in 1..MaxRows } } :
            cols \in ColumnLists }

\* row[units_names] raises KeyError when a name is no column
row_select_raises(frame, names) ==
    \E k \in 1..Len(names) : names[k] \notin ColumnSet(frame.columns)

\* row[units_names].dropna(): the names, in order, whose time is not NaN
valid_times(row, names) == SelectSeq(names, LAMBDA n : row[n] # None)

\* valid_times.min()
min_time_of(row, valid) ==
    LET S == {row[valid[k]] : k \in 1..Len(valid)}
    IN  CHOOSE m \in S : \A o \in S : RatLeq(m, o)

\* valid_times.idxmin(): the first label that holds the minimum
idxmin(row, valid) ==
    valid[CHOOSE k \in 1..Len(valid) :
             /\ row[valid[k]] = min_time_of(row, valid)
             /\ \A j \in 1..(k - 1) : row[valid[j]] # min_time_of(row, valid)]

\* line 212: step = max(1, total_features // 100)
progress_step(total_features) ==
    IF total_features \div 100 > 1 THEN total_features \div 100 ELSE 1

\* lines 239-240: `if feedback.isCanceled(): break`
row_loop_breaks(c) == c

\* lines 172-212: the layers are read, the lists are set up
FAURead ==
    /\ pc = "fau_call"
    /\ \E GPD_AVAILABLE \in BOOLEAN :
          IF ~GPD_AVAILABLE
          THEN /\ raised' = "QgsProcessingException"
               /\ pc' = "failed"
               /\ UNCHANGED <<units_names, progress>>
          ELSE /\ raised' = "none"
               /\ progress' = progress \o <<5, 20>>
               /\ units_names' = uniq(units_gdf, 1, <<>>)
               /\ pc' = IF Len(arrival_gdf.rows) = 0 THEN "fau_attach"
                         ELSE "fau_loop"
    /\ first_units' = <<>>
    /\ first_times' = <<>>
    /\ row_idx' = 0
    /\ UNCHANGED <<G, G0, speeds, impl, runVars, query_lat, nearest, atmVars,
                   cacheVars, sumVars, raceVars, units_gdf, arrival_gdf,
                   reported>>

\* lines 214-240: one iteration of the row loop
FAURowStep ==
    /\ pc = "fau_loop"
    /\ LET total_features == Len(arrival_gdf.rows)
           row == arrival_gdf.rows[row_idx + 1]
           valid == valid_times(row, units_names)
           checks == row_idx % progress_step(total_features) = 0
       IN  IF row_select_raises(arrival_gdf, units_names)
           THEN /\ raised' = "KeyError"
                /\ pc' = "failed"
                /\ UNCHANGED <<first_units, first_times, row_idx, canceled,
                               progress>>
           ELSE /\ raised' = raised
                /\ first_units' = Append(first_units,
                                         IF Len(valid) > 0 THEN idxmin(row, valid)
                                         ELSE None)
                /\ first_times' = Append(first_times,
                                         IF Len(valid) > 0
                                         THEN min_time_of(row, valid)
                                         ELSE None)
                /\ progress' = IF checks
                               THEN Append(progress,
                                           40 + ((row_idx * 55) \div total_features))
                               ELSE progress
                /\ \E c \in IF checks THEN {canceled, TRUE} ELSE {canceled} :
                      /\ canceled' = c
                      /\ IF (checks /\ row_loop_breaks(c))
                            \/ row_idx + 1 = total_features
                         THEN /\ pc' = "fau_attach"
                              /\ row_idx' = row_idx
                         ELSE /\ pc' = "fau_loop"
                              /\ row_idx' = row_idx + 1
    /\ UNCHANGED <<G, G0, speeds, impl, speeds_kmh, fire_stations, objects,
                   station_nodes, objects_data, objects_nodes_set,
                   arrival_times_matrix, idx, obj_i, sink, route_type,
                   time_threshold, query_lat, nearest, atmVars, cacheVars,
                   sumVars, raceVars, units_gdf, arrival_gdf, units_names,
                   reported>>

\* arrival_gdf[name] = values raises ValueError when the list has not the
\* length of the index
assign_raises(frame, values) == Len(values) # Len(frame.rows)

\* drop(columns=names) raises KeyError when a name is no column
drop_raises(frame, names) ==
    \E k \in 1..Len(names) : names[k] \notin ColumnSet(frame.columns)

\* lines 243-264: the two columns are attached, the time columns dropped,
\* the layer written to the output file
FAUAttach ==
    /\ pc = "fau_attach"
    /\ IF assign_raises(arrival_gdf, first_units)
          \/ assign_raises(arrival_gdf, first_times)
       THEN /\ raised' = "ValueError"
            /\ pc' = "failed"
            /\ UNCHANGED <<arrival_gdf, sink, progress>>
       ELSE IF drop_raises(arrival_gdf, units_names)
       THEN /\ raised' = "KeyError"
            /\ pc' = "failed"
            /\ arrival_gdf' =
                  [columns |-> arrival_gdf.columns \o <<"first_unit", "first_time">>,
                   rows |-> [r \in 1..Len(arrival_gdf.rows) |->
                                arrival_gdf.rows[r] @@
                                ("first_unit" :> first_units[r]) @@
                                ("first_time" :> first_times[r])]]
            /\ UNCHANGED <<sink, progress>>
       ELSE LET kept == SelectSeq(arrival_gdf.columns,
                                  LAMBDA n : \A k \in 1..Len(units_names) :
                                                units_names[k] # n)
                out == [columns |-> kept \o <<"first_unit", "first_time">>,
                        rows |-> [r \in 1..Len(arrival_gdf.rows) |->
                            [n \in ColumnSet(kept) |-> arrival_gdf.rows[r][n]] @@
                            ("first_unit" :> first_units[r]) @@
                            ("first_time" :> first_times[r])]]
            IN  /\ arrival_gdf' = out
                /\ sink' = out.rows
                /\ progress' = progress \o <<95, 100>>
                /\ raised' = raised
                /\ pc' = "done"
    /\ UNCHANGED <<G, G0, speeds, impl, speeds_kmh, fire_stations, objects,
                   station_nodes, objects_data, objects_nodes_set,
                   arrival_times_matrix, idx, obj_i, canceled, route_type,
                   time_threshold, query_lat, nearest, atmVars, cacheVars,
                   sumVars, raceVars, units_gdf, units_names, first_units,
                   first_times, row_idx, reported>>

InitFAU ==
    /\ pc = "fau_call"
    /\ G = EmptyGraph
    /\ G0 = G
    /\ speeds = <<>>
    /\ impl = "none"
    /\ raised = "none"
    /\ speeds_kmh = <<>>
    /\ fire_stations = <<>>
    /\ objects = <<>>
    /\ station_nodes = EmptyDict
    /\ objects_data = <<>>
    /\ objects_nodes_set = {}
    /\ arrival_times_matrix = <<>>
    /\ idx = 0
    /\ obj_i = 0
    /\ canceled = FALSE
    /\ sink = <<>>
    /\ reported = <<>>
    /\ progress = <<>>
    /\ route_type = 0
    /\ time_threshold = Int2Rat(30)
    /\ query_lat = <<>>
    /\ nearest = 0
    /\ AtmIdle
    /\ CacheIdle
    /\ SumIdle
    /\ RaceIdle
    /\ units_gdf \in UnitLayers
    /\ arrival_gdf \in ArrivalFrames
    /\ units_names = <<>>
    /\ first_units = <<>>
    /\ first_times = <<>>
    /\ row_idx = 0

NextFAU ==
    \/ FAURead
    \/ FAURowStep
    \/ FAUAttach

SpecFAU == InitFAU /\ [][NextFAU]_vars

-----------------------------------------------------------------------------
(* sum_route_time_and_length on its own                                      *)

Service == [islist |-> FALSE, tags |-> <<"service">>]

\* the edges a graph may hold: two bundles of parallel edges and a direct
\* street past them
SumSlots ==
    << [u |-> 1, v |-> 2, key |-> 0, hw |-> Residential, lens |-> {Int2Rat(2000)}],
       [u |-> 1, v |-> 2, key |-> 1, hw |-> Residential,
        lens |-> {NoEdge, Int2Rat(0), Int2Rat(600)}],
       [u |-> 2, v |-> 3, key |-> 0, hw |-> Service, lens |-> {NoEdge, Int2Rat(600)}],
       [u |-> 2, v |-> 3, key |-> 1, hw |-> Service, lens |-> {NoEdge, Int2Rat(1000)}],
       [u |-> 1, v |-> 3, key |-> 0, hw |-> Residential,
        lens |-> {NoEdge, Int2Rat(3000)}] >>

\* speed profiles: the second one gives the service roads speed 0, which
\* leaves their edges without a travel time
SumProfiles ==
    { [islist |-> TRUE, vals |-> BaseProfile],
      [islist |-> TRUE, vals |-> <<60, 30, 12, 0, 3>>] }

SumGraphs ==
    { WeightedGraph(
          [nodes |-> RunNodes,
           edges |-> LET all == [k \in 1..Len(SumSlots) |->
                                    NewEdge(SumSlots[k].u, SumSlots[k].v,
                                            SumSlots[k].key, SumSlots[k].hw,
                                            choice[k])]
                     IN  SelectSeq(all, LAMBDA e : e.length # NoEdge)], sp) :
        choice \in { c \in [1..Len(SumSlots) ->
                                UNION {SumSlots[k].lens : k \in 1..Len(SumSlots)}] :
                       \A k \in 1..Len(SumSlots) : c[k] \in SumSlots[k].lens },
        sp \in SumProfiles }

InitSum ==
    /\ pc = "sum_call"
    /\ G \in SumGraphs
    /\ G0 = G
    /\ speeds = <<>>
    /\ impl = "none"
    /\ raised = "none"
    /\ speeds_kmh = <<>>
    /\ fire_stations = <<>>
    /\ objects = <<>>
    /\ station_nodes = EmptyDict
    /\ objects_data = <<>>
    /\ objects_nodes_set = {}
    /\ arrival_times_matrix = <<>>
    /\ idx = 0
    /\ obj_i = 0
    /\ canceled = FALSE
    /\ sink = <<>>
    /\ reported = <<>>
    /\ progress = <<>>
    /\ route_type = 0
    /\ time_threshold = Int2Rat(30)
    /\ query_lat = <<>>
    /\ nearest = 0
    /\ AtmIdle
    /\ CacheIdle
    /\ route_arg \in NodeSeqs(G)
    /\ route_sum = <<>>
    /\ RaceIdle
    /\ FauIdle

SumRoute ==
    /\ pc = "sum_call"
    /\ route_sum' = sum_route_time_and_length(G, route_arg, 1)
    /\ pc' = "sum_done"
    /\ UNCHANGED <<G, G0, speeds, impl, raised, runVars, query_lat, nearest,
                   atmVars, cacheVars, route_arg, raceVars, fauVars,
                   feedbackVars>>

NextSum == SumRoute

SpecSum == InitSum /\ [][NextSum]_vars

-----------------------------------------------------------------------------
(* All-stations runs over a two-station road network                         *)

Trunk == [islist |-> FALSE, tags |-> <<"trunk">>]

\* node 1 -> node 3 on a residential road, node 2 -> node 3 on a trunk road
ScenarioSlots ==
    << [u |-> 1, v |-> 3, key |-> 0, hw |-> Residential,
        lens |-> {Int2Rat(2000), Int2Rat(4340)}],
       [u |-> 2, v |-> 3, key |-> 0, hw |-> Trunk,
        lens |-> {NoEdge, Int2Rat(1000)}] >>

ScenarioGraphs ==
    { [nodes |-> RunNodes,
       edges |-> LET all == [k \in 1..Len(ScenarioSlots) |->
                                NewEdge(ScenarioSlots[k].u, ScenarioSlots[k].v,
                                        ScenarioSlots[k].key, ScenarioSlots[k].hw,
                                        choice[k])]
                 IN  SelectSeq(all, LAMBDA e : e.length # NoEdge)] :
        choice \in { c \in [1..Len(ScenarioSlots) ->
                        UNION {ScenarioSlots[k].lens : k \in 1..Len(ScenarioSlots)}] :
                       \A k \in 1..Len(ScenarioSlots) : c[k] \in ScenarioSlots[k].lens } }

ScenarioStations == LayersOf({StationPoint("A", 10), StationPoint("B", 20)})

ScenarioProfiles ==
    { [islist |-> TRUE, vals |-> DEFAULT_SPEEDS_KMH],
      [islist |-> TRUE, vals |-> BaseProfile],
      [islist |-> FALSE, vals |-> BaseProfile] }

InitScenario ==
    /\ pc = "params"
    /\ G \in ScenarioGraphs
    /\ G0 = G
    /\ speeds \in ScenarioProfiles
    /\ impl = "none"
    /\ raised = "none"
    /\ speeds_kmh = <<>>
    /\ fire_stations \in ScenarioStations
    /\ objects \in ObjectLayers
    /\ station_nodes = EmptyDict
    /\ objects_data = <<>>
    /\ objects_nodes_set = {}
    /\ arrival_times_matrix = <<>>
    /\ idx = 0
    /\ obj_i = 0
    /\ canceled = FALSE
    /\ sink = <<>>
    /\ reported = <<>>
    /\ progress = <<>>
    /\ route_type = 0
    /\ time_threshold = Int2Rat(30)
    /\ OtherIdle

SpecScenario == InitScenario /\ [][Next]_vars

-----------------------------------------------------------------------------
(* Two runs saving to the same cache key while a third one loads it          *)

\* tokens handed to the file per write()
ChunkTokens == 4

Writers == {1, 2}

\* what OSM answered the two runs: the same network, or the network before
\* and after an edit of its lengths
RaceGraphs ==
    { [nodes |-> RunNodes,
       edges |-> <<NewEdge(1, 2, 0, Residential, Int2Rat(2000)),
                   NewEdge(2, 3, 0, Residential, Int2Rat(600))>>],
      [nodes |-> RunNodes,
       edges |-> <<NewEdge(1, 2, 0, Residential, Int2Rat(2500)),
                   NewEdge(2, 3, 0, Residential, Int2Rat(700))>>] }

\* the file after write(chunk) at offset pos: a hole is read as zero bytes
WriteAt(bytes, pos, chunk) ==
    LET end == pos + Len(chunk)
        n == IF end > Len(bytes) THEN end ELSE Len(bytes)
    IN  [k \in 1..n |->
            IF k > pos /\ k <= end THEN chunk[k - pos]
            ELSE IF k <= Len(bytes) THEN bytes[k]
            ELSE Token("ZERO", 0, <<>>)]

InitRace ==
    /\ pc = "race"
    /\ G = EmptyGraph
    /\ G0 = G
    /\ speeds = <<>>
    /\ impl = "none"
    /\ raised = "none"
    /\ speeds_kmh = <<>>
    /\ fire_stations = <<>>
    /\ objects = <<>>
    /\ station_nodes = EmptyDict
    /\ objects_data = <<>>
    /\ objects_nodes_set = {}
    /\ arrival_times_matrix = <<>>
    /\ idx = 0
    /\ obj_i = 0
    /\ canceled = FALSE
    /\ sink = <<>>
    /\ reported = <<>>
    /\ progress = <<>>
    /\ route_type = 0
    /\ time_threshold = Int2Rat(30)
    /\ query_lat = <<>>
    /\ nearest = 0
    /\ AtmIdle
    /\ CacheIdle
    /\ SumIdle
    /\ FauIdle
    /\ race_file = NoFile
    /\ race_writers \in [Writers -> { [state |-> "idle", graph |-> g, pos |-> 0] :
                                        g \in RaceGraphs }]
    /\ race_read = [loads |-> 0, ok |-> FALSE, graph |-> EmptyGraph]

RaceUnchanged ==
    UNCHANGED <<speedVars, runVars, query_lat, nearest, atmVars, cacheVars,
                sumVars, fauVars, feedbackVars>>

\* save_graph_to_cache, line 193: open(cache_file, 'wb') truncates the file
RaceOpen(w) ==
    /\ race_writers[w].state = "idle"
    /\ race_file' = [exists |-> TRUE, bytes |-> <<>>]
    /\ race_writers' = [race_writers EXCEPT ![w].state = "open"]
    /\ UNCHANGED race_read
    /\ RaceUnchanged

\* save_graph_to_cache, line 194: one write() of pickle.dump, at the
\* writer's own offset
RaceWrite(w) ==
    /\ race_writers[w].state = "open"
    /\ LET stream == pickle_dump(race_writers[w].graph)
           pos == race_writers[w].pos
           end == IF pos + ChunkTokens > Len(stream) THEN Len(stream)
                  ELSE pos + ChunkTokens
       IN  /\ pos < Len(stream)
           /\ race_file' = [exists |-> TRUE,
                            bytes |-> WriteAt(race_file.bytes, pos,
                                              SubSeq(stream, pos + 1, end))]
           /\ race_writers' = [race_writers EXCEPT ![w].pos = end]
    /\ UNCHANGED race_read
    /\ RaceUnchanged

\* save_graph_to_cache, lines 193-195: the with block closes the file
RaceClose(w) ==
    /\ race_writers[w].state = "open"
    /\ race_writers[w].pos = Len(pickle_dump(race_writers[w].graph))
    /\ race_writers' = [race_writers EXCEPT ![w].state = "done"]
    /\ UNCHANGED <<race_file, race_read>>
    /\ RaceUnchanged

\* load_graph_from_cache by a third run
RaceLoad ==
    /\ race_read.loads < 2
    /\ LET r == load_graph_from_cache([k \in {0} |-> race_file], 0)
       IN  race_read' = [loads |-> race_read.loads + 1, ok |-> r.ok,
                         graph |-> r.graph]
    /\ UNCHANGED <<race_file, race_writers>>
    /\ RaceUnchanged

NextRace ==
    \/ \E w \in Writers : RaceOpen(w)
    \/ \E w \in Writers : RaceWrite(w)
    \/ \E w \in Writers : RaceClose(w)
    \/ RaceLoad

SpecRace == InitRace /\ [][NextRace]_vars

-----------------------------------------------------------------------------
(* Claims about set_graph_travel_times, checked under SpecSpeeds *)

EdgeIds == 1..Len(G.edges)

\* the travel time the speed model prescribes for edge n: length / speed when
\* both are positive, no travel time when either is zero or missing
PrescribedTime(n) ==
    LET len == G0.edges[n].length
        speed == G.edges[n].maxspeed
    IN  IF IsPositive(len) /\ IsPositive(speed) THEN RatDiv(len, speed)
        ELSE None

\* C1: for every valid 5-element positive profile the call completes, every
\* edge with positive length and speed gets travel_time = length / speed and
\* every edge whose length or speed is zero or missing gets no travel time.
C1_TravelTimes ==
    (pc = "done" /\ ValidProfile(speeds)) =>
        /\ raised = "none"
        /\ \A n \in EdgeIds : G.edges[n].travel_time = PrescribedTime(n)

\* C1 restricted to graph_utils.set_graph_travel_times (holds)
C1_GraphUtilsOnly ==
    (pc = "done" /\ ValidProfile(speeds) /\ impl = "graph_utils") =>
        /\ raised = "none"
        /\ \A n \in EdgeIds : G.edges[n].travel_time = PrescribedTime(n)

\* C8: every profile that is not exactly 5 positive entries is refused with
\* an invalid-profile error and no edge is changed.
C8_InvalidProfileRefused ==
    (pc = "done" /\ ~ValidProfile(speeds)) =>
        /\ raised = "ValueError"
        /\ G = G0

\* what the argument check does refuse: a non-list, or a list not of length 5
C8_WrongShapeRefused ==
    (pc = "done" /\ ProfileRejected(speeds)) =>
        /\ raised = "ValueError"
        /\ G = G0

\* C10: after graph_utils.set_graph_travel_times every travel_time is
\* undefined or a positive number equal to length / speed; never 0, never
\* negative, for every profile the function accepts.
C10_TimesPositive ==
    (pc = "done" /\ impl = "graph_utils" /\ raised = "none") =>
        \A n \in EdgeIds :
            LET t == G.edges[n].travel_time
            IN  t # None =>
                  /\ t[1] > 0
                  /\ t = RatDiv(G0.edges[n].length, G.edges[n].maxspeed)

\* the tier a road-class tag counts as: unrecognized tags count as tier 5
TierOrFive(tag) == IF Tier(tag) \in 1..5 THEN Tier(tag) ELSE 5

\* the converted speed of the tier of a tag under the profile of the call
TagSpeed(tag) == kmh_to_mm(Int2Rat(speeds.vals[TierOrFive(tag)]))

RECURSIVE SumTagSpeeds(_, _)
SumTagSpeeds(tags, n) ==
    IF n = 0 THEN Zero
    ELSE RatAdd(SumTagSpeeds(tags, n - 1), TagSpeed(tags[n]))

\* C11: the speed assigned to an edge is the tier speed of its tag, a missing
\* or unrecognized tag counting as tier 5; for a list of tags it is the
\* arithmetic mean of the tier speeds of all tags of the list.
C11_TierSpeeds ==
    (pc = "done" /\ raised = "none") =>
        \A n \in EdgeIds :
            LET hw == G0.edges[n].highway
            IN  G.edges[n].maxspeed =
                  IF hw.islist
                  THEN RatDivInt(SumTagSpeeds(hw.tags, Len(hw.tags)), Len(hw.tags))
                  ELSE IF hw.tags = <<>> THEN kmh_to_mm(Int2Rat(speeds.vals[5]))
                       ELSE TagSpeed(hw.tags[1])

\* a weighted graph with an unrecognized tag and a list of tags of two tiers
C11_Witness ==
    /\ pc = "done" /\ raised = "none"
    /\ \E n \in EdgeIds : G0.edges[n].highway.tags = <<"proposed">>
    /\ \E n \in EdgeIds :
          /\ G0.edges[n].highway.islist
          /\ TagSpeed(G0.edges[n].highway.tags[1])
               # TagSpeed(G0.edges[n].highway.tags[2])
          /\ G.edges[n].maxspeed # None

-----------------------------------------------------------------------------
(* Claims about the all-stations analysis, checked under Spec *)

\* travel times of the traversable edges u -> v
HopTimes(graph, u, v) ==
    { graph.edges[k].travel_time : k \in Bundle(graph, u, v) } \ {None}

SetMin(S) == CHOOSE m \in S : \A o \in S : RatLeq(m, o)
SetMax(S) == CHOOSE m \in S : \A o \in S : RatLeq(o, m)

\* directed simple paths s -> t over traversable edges, as node sequences
SimplePaths(graph, s, t) ==
    LET N == NodeIds(graph)
    IN  { p \in UNION { [1..n -> N] : n \in 1..Cardinality(N) } :
            /\ p[1] = s
            /\ p[Len(p)] = t
            /\ \A a, b \in 1..Len(p) : a # b => p[a] # p[b]
            /\ \A a \in 1..(Len(p) - 1) : HopTimes(graph, p[a], p[a + 1]) # {} }

RECURSIVE PathTime(_, _)
PathTime(graph, p) ==
    IF Len(p) <= 1 THEN Zero
    ELSE RatAdd(SetMin(HopTimes(graph, p[1], p[2])), PathTime(graph, Tail(p)))

\* minimum total travel time over all directed paths s -> t (None: no path)
MinPathTime(graph, s, t) ==
    LET P == SimplePaths(graph, s, t)
    IN  IF P = {} THEN None
        ELSE SetMin({ PathTime(graph, p) : p \in P })

AfterStationLoop == pc \in {"aggregate", "done"}

RowIsShortestTimes(name) ==
    LET row == arrival_times_matrix[name]
        src == station_nodes.val[name]
    IN  \A t \in NodeIds(G) :
          /\ t \in DOMAIN row <=>
                (t \in objects_nodes_set /\ MinPathTime(G, src, t) # None)
          /\ t \in DOMAIN row => row[t] = MinPathTime(G, src, t)

\* C3: after the station loop every row holds exactly the target nodes that
\* are reachable from the station's node over traversable edges, each with
\* the minimum total travel time over all directed paths.
C3_RowsAreShortestTimes ==
    AfterStationLoop =>
        \A name \in DOMAIN arrival_times_matrix : RowIsShortestTimes(name)

\* C3 for the rows whose traversal did not raise (holds)
C3_UnlessTraversalRaised ==
    AfterStationLoop =>
        \A name \in DOMAIN arrival_times_matrix :
            ~DijkstraRaises(G, station_nodes.val[name]) => RowIsShortestTimes(name)

\* the stations with a time for node t in the matrix
Available(t) ==
    { name \in DOMAIN arrival_times_matrix : t \in DOMAIN arrival_times_matrix[name] }

TimeOf(name, t) == arrival_times_matrix[name][t]

RECURSIVE SumTimes(_, _)
SumTimes(S, t) ==
    IF S = {} THEN Zero
    ELSE LET n == CHOOSE x \in S : TRUE
         IN  RatAdd(TimeOf(n, t), SumTimes(S \ {n}, t))

Min2(a, b) == IF a < b THEN a ELSE b

\* S is a choice of the m fastest stations for node t
Fastest(S, m, t) ==
    /\ S \subseteq Available(t)
    /\ Cardinality(S) = m
    /\ \A a \in S : \A b \in Available(t) \ S : RatLeq(TimeOf(a, t), TimeOf(b, t))

Features == { sink[k] : k \in 1..Len(sink) }

\* C4: for every target and every rank requiring k units, min, max and avg
\* are those of the min(k, count_available) smallest available times; with
\* fewer than k available times the rank uses all of them.
C4_RankStats ==
    \A f \in Features : \A r \in 1..Len(fire_ranks) :
        LET t == f.locals.obj_node
            m == Min2(fire_ranks[r], Cardinality(Available(t)))
            res == f.locals.rank_results[r]
        IN  /\ m >= 1
            /\ \E S \in SUBSET Available(t) :
                 /\ Fastest(S, m, t)
                 /\ res.min = SetMin({TimeOf(n, t) : n \in S})
                 /\ res.max = SetMax({TimeOf(n, t) : n \in S})
                 /\ res.avg = RatDivInt(SumTimes(S, t), m)

\* a target with two different times: rank 1 takes the faster one only, the
\* ranks of 3..6 units degrade to both
C4_Witness ==
    \E f \in Features :
        /\ Len(f.locals.station_times) = 2
        /\ f.locals.station_times[1].response_time_min
             # f.locals.station_times[2].response_time_min

RECURSIVE SumAvg(_, _)
SumAvg(rank_results, n) ==
    IF n = 0 THEN Zero
    ELSE RatAdd(rank_results[n].avg, SumAvg(rank_results, n - 1))

\* C5: arrival_time_min is the least rank minimum, arrival_time_max the
\* greatest rank maximum, arrival_time_mean the mean of the rank averages.
C5_OverallStats ==
    \A f \in Features :
        LET rr == f.locals.rank_results
            R == 1..Len(fire_ranks)
        IN  /\ \A r \in R : RatLeq(f.locals.arrival_time_min, rr[r].min)
            /\ \E r \in R : f.locals.arrival_time_min = rr[r].min
            /\ \A r \in R : RatLeq(rr[r].max, f.locals.arrival_time_max)
            /\ \E r \in R : f.locals.arrival_time_max = rr[r].max
            /\ f.locals.arrival_time_mean
                 = RatDivInt(SumAvg(rr, Len(fire_ranks)), Len(fire_ranks))

\* a target whose mean of rank averages differs from the mean of its times
C5_Witness ==
    \E f \in Features :
        /\ Len(f.locals.station_times) = 2
        /\ f.locals.arrival_time_mean # f.locals.rank_results[6].avg

\* the objects taken by the object loop so far
Processed == { objects_data[k] : k \in 1..obj_i }

\* C6: a target with no available time still gets an output feature, with
\* every rank statistic and every overall statistic recorded as no value.
C6_UnreachableTargetSurfaces ==
    \A o \in Processed :
        Available(o.node) = {} =>
            \E f \in Features :
                /\ f.object_id = o.id
                /\ \A r \in 1..Len(fire_ranks) :
                     f.rank_min[r] = None /\ f.rank_max[r] = None
                       /\ f.rank_avg[r] = None
                /\ f.arrival_time_mean = None

\* C7: the evaluation is "satisfactory" exactly when arrival_time_mean is at
\* most 10 minutes, "unsatisfactory" when it is greater, and there is no
\* classification when the mean is absent.
C7_Evaluation ==
    \A f \in Features :
        LET mean == f.locals.arrival_time_mean
        IN  IF mean = Inf THEN f.evaluation = ""
            ELSE /\ f.evaluation = "satisfactory" <=> mean[1] <= 10 * mean[2]
                 /\ f.evaluation = "unsatisfactory" <=> mean[1] > 10 * mean[2]

\* a target whose mean is exactly 10 minutes, labelled satisfactory
C7_Witness ==
    /\ \E f \in Features :
          f.locals.arrival_time_mean = Int2Rat(10) /\ f.evaluation = "satisfactory"

MalformedProfile == ~speeds.islist \/ Len(speeds.vals) # 5

\* C9: a run given a malformed speed profile fails as a whole before any
\* computation starts and produces no results.
C9_MalformedProfileFailsRun ==
    (MalformedProfile /\ pc # "params") =>
        /\ pc = "failed"
        /\ raised # "none"
        /\ sink = <<>>

\* C9 as amended: a malformed profile is replaced by DEFAULT_SPEEDS_KMH, no
\* error is raised for it and the edges are weighted with the default speeds.
C9_MalformedProfileFallsBack ==
    (MalformedProfile /\ pc # "params") =>
        /\ speeds_kmh = [islist |-> TRUE, vals |-> DEFAULT_SPEEDS_KMH]
        /\ raised = "ValueError" =>
             \E k \in 1..Len(fire_stations) : fire_stations[k].geom = "null"
        /\ pc # "graph" =>
             \A n \in 1..Len(G.edges) :
                 G.edges[n].maxspeed =
                     EdgeSpeed(Morph(DEFAULT_SPEEDS_KMH), G.edges[n].highway)

\* a run with a malformed profile that finished and wrote a feature
C9_Witness ==
    MalformedProfile /\ pc = "done" /\ raised = "none" /\ sink # <<>>


\* station feature k has a source node: a point with finite coordinates and
\* a graph node nearest to it
Resolves(k) ==
    /\ fire_stations[k].geom = "point"
    /\ fire_stations[k].y # Inf
    /\ find_nearest_node(G0, fire_stations[k].y) # 0

StationIds == 1..Len(fire_stations)

AfterResolveStep == pc \in {"objects", "matrix", "aggregate", "done"}

StationLoopFinished ==
    pc \in {"aggregate", "done"} /\ idx = Len(station_nodes.keys)

\* every station without a source node has its error reported; every station
\* with one has the row of the traversal from its node
SkippedAndTraversed ==
    /\ AfterResolveStep =>
          \A k \in StationIds :
             ~Resolves(k) =>
                \E n \in 1..Len(reported) :
                   reported[n] = [kind |-> "station_node", id |-> k]
    /\ StationLoopFinished =>
          \A k \in StationIds :
             Resolves(k) =>
                /\ fire_stations[k].name \in DOMAIN arrival_times_matrix
                /\ arrival_times_matrix[fire_stations[k].name] =
                      StationRow(find_nearest_node(G, fire_stations[k].y))

\* C15: when at least one station resolves, a station whose source node
\* cannot be resolved does not end the run: it is skipped with an error
\* reported for it, and every station that resolves is traversed and has
\* its times in the matrix.
C15_UnresolvedStationSkipped ==
    (\E k \in StationIds : Resolves(k)) =>
        /\ ~(pc = "failed" /\ raised = "ValueError")
        /\ SkippedAndTraversed

\* C15 for layers whose features all have a geometry and whose resolving
\* stations have distinct names (holds)
C15_WithGeometryDistinctNames ==
    ( /\ \E k \in StationIds : Resolves(k)
      /\ \A k \in StationIds : fire_stations[k].geom = "point"
      /\ \A j, k \in StationIds :
            (j # k /\ Resolves(j) /\ Resolves(k)) =>
                fire_stations[j].name # fire_stations[k].name ) =>
        /\ ~(pc = "failed" /\ raised = "ValueError")
        /\ SkippedAndTraversed

\* the row of a station is the whole filtered result of the traversal from
\* its node, or empty when that traversal raised
RowComplete(name) ==
    LET row == arrival_times_matrix[name]
        src == station_nodes.val[name]
    IN  IF DijkstraRaises(G, src) THEN row = <<>>
        ELSE /\ DOMAIN row = {t \in objects_nodes_set : MinPathTime(G, src, t) # None}
             /\ \A t \in DOMAIN row : row[t] = MinPathTime(G, src, t)

RowsComplete == \A name \in DOMAIN arrival_times_matrix : RowComplete(name)

\* C17: at every moment each row of the matrix is the complete filtered
\* result of a finished traversal (empty for a failed one), and once the
\* cancellation has been observed no station is traversed any more: the
\* matrix, the station counter and the progress stay as they are.
C17_CancelBetweenStations ==
    /\ []RowsComplete
    /\ [][canceled => UNCHANGED <<arrival_times_matrix, idx, progress>>]_vars

\* the cancellation was observed after the first of two stations, whose row
\* holds a time
C17_Witness ==
    /\ canceled
    /\ idx = 1
    /\ Len(station_nodes.keys) = 2
    /\ \E name \in DOMAIN arrival_times_matrix :
          DOMAIN arrival_times_matrix[name] # {}

-----------------------------------------------------------------------------
(* Claims about the nearest-station and routes modes, checked under         *)
(* SpecPaths                                                                 *)

\* C2: every response time written by the nearest-station mode or the routes
\* mode is the shortest travel time from the station's node to the target's
\* node in the directed graph (station the source, target the sink).
C2_StationToTarget ==
    \A n \in 1..Len(sink) :
        LET f == sink[n]
            t == MinPathTime(G, f.locals.st_node, f.locals.obj_node)
        IN  /\ t # None
            /\ f.response_time_min = RatRound(t, 100)

\* what the two modes write: the shortest travel time from the target's node
\* to the station's node (holds)
C2_TargetToStation ==
    \A n \in 1..Len(sink) :
        LET f == sink[n]
            t == MinPathTime(G, f.locals.obj_node, f.locals.st_node)
        IN  /\ t # None
            /\ f.response_time_min = RatRound(t, 100)

\* a feature written over a one-way pair whose two directions differ
C2_Witness ==
    \E n \in 1..Len(sink) :
        LET f == sink[n]
        IN  /\ f.locals.obj_node # f.locals.st_node
            /\ MinPathTime(G, f.locals.st_node, f.locals.obj_node) #
               MinPathTime(G, f.locals.obj_node, f.locals.st_node)

-----------------------------------------------------------------------------
(* Claims about find_nearest_node, checked under SpecNode *)

\* positions of the nodes that have both coordinates
WithCoords == {k \in 1..Len(G.nodes) : G.nodes[k].x # None /\ G.nodes[k].y # None}

DistOf(k) == haversine(query_lat, G.nodes[k].y)

\* positions of the nodes at the least distance from the query point
Closest == {k \in WithCoords : \A j \in WithCoords : DistOf(k) <= DistOf(j)}

\* C12: the returned node has coordinates and is no farther from the query
\* point than any other node with coordinates; None is returned only when no
\* node has coordinates.
C12_NearestIsMinimal ==
    pc = "nearest_done" =>
        IF WithCoords = {} THEN nearest = 0
        ELSE \E k \in Closest : G.nodes[k].id = nearest

\* a graph where the first node lacks coordinates and the second is farther
\* than the third
C12_Witness ==
    /\ pc = "nearest_done"
    /\ Len(G.nodes) = 3
    /\ 1 \notin WithCoords
    /\ 2 \in WithCoords /\ 3 \in WithCoords
    /\ DistOf(3) < DistOf(2)
    /\ nearest = G.nodes[3].id

\* C13: of several nodes at the same least distance the first one in the
\* graph's node order is returned.
C13_FirstOfTies ==
    (pc = "nearest_done" /\ Closest # {}) =>
        nearest = G.nodes[CHOOSE k \in Closest : \A j \in Closest : k <= j].id

\* two nodes tie for the least distance
C13_Witness ==
    /\ pc = "nearest_done"
    /\ Cardinality(Closest) >= 2
    /\ nearest # 0

\* C14: of several nodes at the same least distance the one with the lowest
\* node id is returned, whatever the order of insertion.
C14_LowestIdOfTies ==
    (pc = "nearest_done" /\ Closest # {}) =>
        \A k \in Closest : nearest <= G.nodes[k].id

-----------------------------------------------------------------------------
(* Claims about empty inputs, read under Spec and under SpecPaths *)

\* no station of the layer can be used
NoStation == \A k \in StationIds : ~Resolves(k)

\* no object of the layer can be used
NoTarget ==
    \A k \in 1..Len(objects) :
        objects[k].empty \/ find_nearest_node(G0, objects[k].y) = 0

\* C16: a run with no usable station or no usable target fails as a whole:
\* it never reaches the shortest-path computation, never completes, and
\* writes nothing to the sink.
C16_EmptySetsFailRun ==
    (NoStation \/ NoTarget) =>
        /\ pc \notin {"matrix", "aggregate", "done"}
        /\ sink = <<>>

-----------------------------------------------------------------------------
(* Claims about the progress reports *)

\* the progress pushed for a station of the all-stations analysis is the
\* share of the stations already traversed, in percent with one decimal
\* (holds under Spec)
C18_StationProgress ==
    \A n \in 1..Len(progress) :
        progress[n] = RatRound(Rat(100 * (n - 1), Len(station_nodes.keys)), 10)

\* the progress values set by the unit loop of the arrival-time matrix
UnitProgress == [n \in 1..unit_i |-> progress[3 + n]]

\* C18: the progress reported for each station is completed_stations /
\* total_stations; for the unit loop of the arrival-time matrix, which owns
\* the range 40..95 of the progress bar, the n-th report stands at the share
\* of the units done, either counting the unit just traversed or not.
C18_ProgressIsFraction ==
    pc \in {"atm_units", "atm_save", "done"} =>
        LET total == Len(existed_units_dict.keys)
        IN  \/ \A n \in 1..unit_i :
                  UnitProgress[n] = 40 + (55 * n) \div total
            \/ \A n \in 1..unit_i :
                  UnitProgress[n] = 40 + (55 * (n - 1)) \div total

-----------------------------------------------------------------------------
(* Claims about the graph cache, checked under SpecCache and SpecBuild *)

NodeSet(graph) == {graph.nodes[k] : k \in 1..Len(graph.nodes)}
EdgeSet(graph) == {graph.edges[k] : k \in 1..Len(graph.edges)}

\* same node ids with the same coordinates, same edges (end nodes, key)
\* with the same attributes, none of them twice
GraphEquivalent(a, b) ==
    /\ NodeSet(a) = NodeSet(b)
    /\ Len(a.nodes) = Len(b.nodes)
    /\ EdgeSet(a) = EdgeSet(b)
    /\ Len(a.edges) = Len(b.edges)

\* a load of the key of the last save, after a save that returned True
LoadedAfterSave ==
    /\ pc = "loaded"
    /\ saved_ok
    /\ cached_graph.key = cache_key

\* C19: save_graph_to_cache(G, key) (returning True) followed by
\* load_graph_from_cache(key) returns a graph with the node ids and
\* coordinates of G and the edges of G, parallel-edge keys, attributes and
\* weights included.
C19_RoundTrip ==
    LoadedAfterSave =>
        /\ cached_graph.ok
        /\ GraphEquivalent(cached_graph.graph, saved_graph)

\* a graph with parallel edges and travel times came back, its edges in
\* another order than they were inserted
C19_Witness ==
    /\ LoadedAfterSave
    /\ cached_graph.ok
    /\ \E e, f \in EdgeSet(saved_graph) :
          e.u = f.u /\ e.v = f.v /\ e.key # f.key /\ e.travel_time # None
    /\ cached_graph.graph.edges # saved_graph.edges

\* the file of key k can be loaded
Readable(files, k) == load_graph_from_cache(files, k).ok

\* a step that is a call with caching enabled and no road layer
CachingRequest ==
    /\ requests' = requests + 1
    /\ request'.use_cache
    /\ ~request'.road_layer

C21_FileFailuresSilent ==
    cache_dir = "ok" =>
        /\ raised = "none"
        /\ pc = "loaded" /\ ~Readable(cache_files, cached_graph.key) =>
              ~cached_graph.ok

\* C21: no cache read or write failure - a corrupted or unreadable entry, a
\* failed write, a cache directory that cannot be created or accessed -
\* surfaces as an exception: a load gives None and a save gives False.
C21_CacheFailuresSilent ==
    /\ raised = "none"
    /\ pc # "cache_raised"

-----------------------------------------------------------------------------
(* Claims about sum_route_time_and_length, checked under SpecSum *)

\* the parallel edges of hop h of route_arg, and those with a travel time
HopEdges(h) == Bundle(G, route_arg[h], route_arg[h + 1])
HopTimed(h) == {e \in HopEdges(h) : G.edges[e].travel_time # None}

\* an edge of hop h with the lowest travel time
HopBest(h) ==
    CHOOSE e \in HopTimed(h) :
        \A o \in HopTimed(h) :
            RatLeq(G.edges[e].travel_time, G.edges[o].travel_time)

LengthOrZero(e) == IF G.edges[e].length \in {None, Zero} THEN Zero
                   ELSE G.edges[e].length

\* time and length of hop h: those of the edge with the lowest travel time;
\* with no such edge time 0 and the length fb
HopShare(h, fb) ==
    IF HopTimed(h) # {}
    THEN [time |-> G.edges[HopBest(h)].travel_time,
          len |-> LengthOrZero(HopBest(h))]
    ELSE [time |-> Zero, len |-> fb]

\* the first edge of hop h, in order of insertion
HopFirst(h) == CHOOSE e \in HopEdges(h) : \A o \in HopEdges(h) : e <= o

FirstLength(h) == IF HopEdges(h) = {} THEN Zero ELSE LengthOrZero(HopFirst(h))

RECURSIVE SumShares(_, _)
SumShares(h, keep) ==
    IF h = 0 THEN [time |-> Zero, len |-> Zero]
    ELSE LET rest == SumShares(h - 1, keep)
             hop == HopShare(h, IF keep THEN FirstLength(h) ELSE Zero)
         IN  [time |-> RatAdd(rest.time, hop.time),
              len |-> RatAdd(rest.len, hop.len)]

AllTimed(graph) ==
    \A k \in 1..Len(graph.edges) : graph.edges[k].travel_time # None

RouteSource == route_arg[1]
RouteTarget == route_arg[Len(route_arg)]

\* the node sequence summed is one nx.shortest_path may return for its ends
RouteIsShortest == route_arg \in ShortestRoutes(G, RouteSource, RouteTarget)

\* C27: on a graph where every edge has a travel time, the total time of
\* sum_route_time_and_length over a node sequence returned by the weighted
\* shortest-path search is the minimum, over all directed paths between the
\* two end nodes, of the sum of the cheapest parallel edge of every hop, and
\* it is the length nx.shortest_path_length gives for the same pair in the
\* same direction (the entry of the all-stations matrix).
\* Checked under SpecSum.
C27_RouteSumIsShortestTime ==
    (pc = "sum_done" /\ AllTimed(G) /\ RouteIsShortest) =>
        /\ route_sum.time = MinPathTime(G, RouteSource, RouteTarget)
        /\ shortest_path_length(G, RouteSource).ok
        /\ RouteTarget \in DOMAIN shortest_path_length(G, RouteSource).dist
        /\ shortest_path_length(G, RouteSource).dist[RouteTarget] = route_sum.time

\* the shortest route 1 -> 2 -> 3 summed on a graph that also has the direct
\* street 1 -> 3 and whose faster edge 1 -> 2 is not the first of its pair
C27_Witness ==
    /\ pc = "sum_done"
    /\ AllTimed(G)
    /\ route_arg = <<1, 2, 3>>
    /\ RouteIsShortest
    /\ Bundle(G, 1, 3) # {}
    /\ HopBest(1) # HopFirst(1)
    /\ Cardinality(HopEdges(2)) = 2

-----------------------------------------------------------------------------
(* Claims about whole all-stations runs, checked under SpecScenario *)

\* the run of the scenario: stations A (node 1) and B (node 2), target T
\* (node 3), 2000 m of residential road 1 -> 3, 1000 m of trunk road 2 -> 3,
\* default speeds (26 km/h and 49 km/h), run to its end without cancellation
ScenarioRun ==
    /\ pc = "done"
    /\ ~canceled
    /\ G0.edges = <<NewEdge(1, 3, 0, Residential, Int2Rat(2000)),
                    NewEdge(2, 3, 0, Trunk, Int2Rat(1000))>>
    /\ fire_stations = <<[id |-> 1, name |-> "A", y |-> Int2Rat(10), geom |-> "point"],
                         [id |-> 2, name |-> "B", y |-> Int2Rat(20), geom |-> "point"]>>
    /\ objects = <<ObjectFeature(1, 30)>>
    /\ speeds = [islist |-> TRUE, vals |-> DEFAULT_SPEEDS_KMH]

\* C24: in the scenario the times are 4.62 min for A and 1.22 min for B (to
\* two decimals), the rank requiring 1 unit has min = max = avg = the time
\* of B (written as 1.2), and the evaluation is "satisfactory".
C24_Scenario ==
    ScenarioRun =>
        /\ Len(sink) = 1
        /\ LET f == sink[1]
               st == f.locals.station_times
           IN  /\ RatRound(arrival_times_matrix["A"][3], 100) = Rat(462, 100)
               /\ RatRound(arrival_times_matrix["B"][3], 100) = Rat(122, 100)
               /\ Len(st) = 2
               /\ st[1].name = "B"
               /\ RatRound(st[1].response_time_min, 100) = Rat(122, 100)
               /\ st[2].name = "A"
               /\ RatRound(st[2].response_time_min, 100) = Rat(462, 100)
               /\ fire_ranks[1] = 1
               /\ f.locals.rank_results[1] =
                     [min |-> st[1].response_time_min,
                      max |-> st[1].response_time_min,
                      avg |-> st[1].response_time_min]
               /\ f.rank_min[1] = Rat(12, 10)
               /\ f.rank_max[1] = Rat(12, 10)
               /\ f.rank_avg[1] = Rat(12, 10)
               /\ f.evaluation = "satisfactory"

C24_Witness == ScenarioRun /\ Len(sink) = 1

\* C28: the evaluation written for a target is "satisfactory" exactly when
\* the arrival_time_mean written for the same target, rounded to one
\* decimal, is at most 10.  Checked under SpecScenario.
C28_LabelMatchesWrittenMean ==
    \A f \in Features :
        f.arrival_time_mean # None =>
            (f.evaluation = "satisfactory" <=>
                RatLeq(f.arrival_time_mean, Int2Rat(10)))

\* one direction holds: a target labelled "satisfactory" has a written mean
\* of at most 10, and a written mean above 10 is labelled "unsatisfactory"
C28_SatisfactoryWithinTen ==
    \A f \in Features :
        f.arrival_time_mean # None =>
            /\ f.evaluation = "satisfactory" =>
                  RatLeq(f.arrival_time_mean, Int2Rat(10))
            /\ f.evaluation = "unsatisfactory" =>
                  RatLeq(Int2Rat(10), f.arrival_time_mean)

-----------------------------------------------------------------------------
(* Claims about runs that share the cache, checked under SpecCachedRun *)

\* the travel time of every edge of a graph
EdgeTimes(graph) ==
    { <<graph.edges[k].u, graph.edges[k].v, graph.edges[k].key,
        graph.edges[k].travel_time>> : k \in 1..Len(graph.edges) }

\* the travel times a run with profile sp gives the road data osm when it
\* builds the graph fresh
FreshTimes(osm, sp) ==
    { <<osm.edges[k].u, osm.edges[k].v, osm.edges[k].key,
        TravelTime(EdgeSpeed(Morph(sp.vals), osm.edges[k].highway),
                   osm.edges[k].length)>> : k \in 1..Len(osm.edges) }

\* the run took its graph from the cache
CacheHit ==
    /\ request.use_cache
    /\ ~request.road_layer
    /\ cached_graph.ok

\* the entry of the run's key was written from the road data OSM holds now
SameRoadData ==
    /\ cache_files[request.key].exists
    /\ cache_files[request.key].bytes = pickle_dump(request.osm)

\* C29: a run that takes its graph from the cache ends with the edge travel
\* times a fresh build of the same road data gets with the run's own speed
\* profile, whatever the run that wrote the entry did.
\* Checked under SpecCachedRun.
C29_HitAsFresh ==
    (pc = "weighted" /\ CacheHit /\ SameRoadData) =>
        /\ EdgeTimes(G) = FreshTimes(request.osm, speeds)
        /\ Len(G.edges) = Len(request.osm.edges)

\* the third call hits the entry the first call wrote, on a graph with a
\* pair of parallel edges, and the speeds of the run have been applied
C29_Witness ==
    /\ pc = "weighted"
    /\ CacheHit
    /\ SameRoadData
    /\ requests = MaxRequests
    /\ downloads = 1
    /\ Len(G.edges) = 4
    /\ speeds.vals = BaseProfile
    /\ \A k \in 1..Len(G.edges) : G.edges[k].travel_time # None

-----------------------------------------------------------------------------
(* Claims about concurrent saves, checked under SpecRace *)

WrittenGraphs == {race_writers[w].graph : w \in Writers}

BothDone == \A w \in Writers : race_writers[w].state = "done"

StoredEntry == load_graph_from_cache([k \in {0} |-> race_file], 0)

\* C22: with two runs writing the graph of one key concurrently, the entry
\* stored after both finished is one writer's complete graph, and a load at
\* any point gives a miss or one writer's complete graph, never a mixed one.
C22_LastWriterWins ==
    /\ race_read.ok =>
          \E g \in WrittenGraphs : GraphEquivalent(race_read.graph, g)
    /\ BothDone =>
          /\ StoredEntry.ok
          /\ \E g \in WrittenGraphs : GraphEquivalent(StoredEntry.graph, g)

\* the claim holds while both runs write the same graph
C22_SameGraphWritten ==
    Cardinality(WrittenGraphs) = 1 => C22_LastWriterWins

-----------------------------------------------------------------------------
(* Claims about the rows and columns of the matrices *)

Resolved == {k \in StationIds : Resolves(k)}

\* C25: every station feature that resolves to a graph node contributes its
\* own times: after the station loop the matrix has one row per resolved
\* station feature, also when two stations share a name or a node.
\* Checked under Spec.
C25_RowPerStation ==
    StationLoopFinished =>
        Cardinality(DOMAIN arrival_times_matrix) = Cardinality(Resolved)

\* the same with station names that differ (holds under Spec)
C25_RowPerName ==
    (StationLoopFinished /\
     \A j, k \in Resolved : j # k => fire_stations[j].name # fire_stations[k].name) =>
        Cardinality(DOMAIN arrival_times_matrix) = Cardinality(Resolved)

\* the arrival-time-matrix layer has one time column per fire unit
\* (refuted under SpecATM by two units next to the same node)
C25_ColumnPerUnit ==
    pc = "done" => Len(target_layer_gdf.columns) = Len(fire_stations)

-----------------------------------------------------------------------------
(* Claims about the first arrival unit, checked under SpecFAU *)

\* the row loop has ended
RowLoopLeft == pc = "fau_attach"

\* C30: a cancellation observed in the row loop does not make the algorithm
\* raise: when the loop is left, the lists that become the columns
\* first_unit and first_time hold one value per row of the layer.
C30_CancelKeepsColumns ==
    /\ canceled => raised = "none"
    /\ RowLoopLeft =>
          /\ Len(first_units) = Len(arrival_gdf.rows)
          /\ Len(first_times) = Len(arrival_gdf.rows)

\* without a cancellation, or with one observed on the last row, the lists
\* are complete and the columns are attached: a ValueError is raised only
\* after a cancellation that left rows unread
C30_CompleteLoopAttaches ==
    /\ (RowLoopLeft /\ ~canceled) =>
          Len(first_units) = Len(arrival_gdf.rows)
    /\ raised = "ValueError" =>
          canceled /\ Len(first_units) < Len(arrival_gdf.rows)
    /\ pc = "done" =>
          \A r \in 1..Len(arrival_gdf.rows) :
             {"first_unit", "first_time"} \subseteq DOMAIN arrival_gdf.rows[r]

=============================================================================
